---- MODULE Spec2Model ----
(***************************************************************************)
(* A model of the crawl-and-index pipeline of wcinspector:                 *)
(*   backend/main.py    the HTTP handlers that start and cancel a crawl    *)
(*   backend/scraper.py run_scrape, run_community_scrape and their helpers *)
(*   backend/rag.py     chunk_text and add_documents_to_vectorstore        *)
(*   backend/database.py the scraped_pages table                           *)
(*                                                                         *)
(* The server is one asyncio event loop: the code that runs between two    *)
(* await points that really suspend is one atomic action of the model.     *)
(***************************************************************************)
EXTENDS Integers, Sequences, FiniteSets, TLC

VARIABLES
    scraper_state,    \* scraper.py:17 the process-wide status record
    tasks,            \* the asyncio tasks made by asyncio.create_task, in creation order
    db_pages,         \* the committed rows of table scraped_pages
    db_images,        \* the committed rows of table scraped_images
    collection,       \* the ChromaDB collection "ptc_docs": a set of chunk records
    hash_seed,        \* the str-hash salt of the running Python process
    site_version,     \* the version of the crawled web site (its content changes with it)
    graph,            \* the shape of the documentation site's link graph
    cancel_requested, \* the cancellation flag flipped by the cancel call
    last_response,    \* the body returned by the most recent HTTP request
    record_responses, \* whether the model keeps the responses in last_response
    returned          \* the latest call of an indexer or retriever function and its value

vars == <<scraper_state, tasks, db_pages, db_images, collection, hash_seed, site_version,
          graph, cancel_requested, last_response, record_responses, returned>>

-----------------------------------------------------------------------------
(* Bounds of the model *)

NDocs == 3            \* documentation pages of the modelled site, 1 is the root
MaxPages == 2         \* max_pages of a docs crawl request ranges over -1..MaxPages
MaxBoards == 1        \* max_threads of a community request is 0 or 5*MaxBoards
NThreads == 2         \* forum threads listed by the board pages
MaxTasks == 2         \* background tasks created in one behaviour
NSeeds == 2           \* distinct str-hash salts a process may draw
MaxSiteVersion == 2   \* versions of the site's content
NQueries == 3         \* distinct search queries
MaxK == 3             \* n_results of a search ranges over 0..MaxK
EmbeddingPoints == 7  \* points of the embedding space
MaxTextLen == 4       \* length of the short texts chunk_text is called with
MaxChunkSize == 3     \* chunk_size of those calls ranges over 0..MaxChunkSize, overlap from -1

(* Program constants *)

CHUNK_SIZE == 1500         \* rag.py:25
CHUNK_OVERLAP == 300       \* rag.py:26
SENTENCE_LOOKBACK == 100   \* rag.py:42
THREADS_PER_BOARD == 5     \* scraper.py:481
MAX_BOARD_PAGES == 20      \* scraper.py:481
PROGRESS_CAP == 99         \* scraper.py:731
MAX_PER_URL == 2           \* rag.py:314
CANDIDATES_FILTERED == 3   \* rag.py:285
CANDIDATES_UNFILTERED == 2 \* rag.py:285

Min(a, b) == IF a <= b THEN a ELSE b
Max(a, b) == IF a >= b THEN a ELSE b

-----------------------------------------------------------------------------
(* Configuration: scraper.py DOC_CATEGORIES.  One docs category and one     *)
(* community category are modelled; "bogus" stands for a key that is not   *)
(* configured.                                                             *)

DOC_CATEGORIES == {"windchill", "community-windchill"}
RequestCategories == DOC_CATEGORIES \cup {"bogus"}
CategoryType(category) == IF category = "community-windchill" THEN "community" ELSE "docs"

(* URLs are numbers: 1..NDocs the documentation pages under the windchill  *)
(* base_url (1 is the base_url itself), 50 a .pdf under the base_url, 60 a *)
(* page anchor (#) under the base_url, 70 an image under the base_url, 90  *)
(* a page outside the base_url,                                            *)
(* 100+k forum thread k, 200+n listing page n of the community board.      *)
Docs == 1..NDocs
PdfUrl == 50
AnchorUrl == 60
ImageUrl == 70
ForeignUrl == 90
ThreadUrl(k) == 100 + k
Threads == {ThreadUrl(k) : k \in 1..NThreads}
BoardUrl(n) == 200 + n
NoUrl == 0
EmptyContent == 0

(* The pages of the site whose link graph has a detour: page 5 is linked   *)
(* from page 2 and, on a longer way, from page 4.                          *)
DetourDocs == 1..6

BaseUrl(category) == IF category = "windchill" THEN 1 ELSE 200

StartsWithBase(url, category) ==
    IF category = "windchill" THEN url \in Docs \cup DetourDocs \cup {PdfUrl, AnchorUrl, ImageUrl}
    ELSE url >= 100

(* str.lower on the texts of the model that have capitals. *)
Lower(word) ==
    CASE word = "Windchill" -> "windchill"
      [] word = "Creo" -> "creo"
      [] word = ".PNG" -> ".png"
      [] OTHER -> word

(* The parts of a URL the link filter looks for: the .pdf link, the link   *)
(* to an anchor of a page and the link to an image, spelt .PNG.            *)
UrlParts(url) ==
    CASE url = PdfUrl -> {".pdf"}
      [] url = AnchorUrl -> {"#"}
      [] url = ImageUrl -> {".PNG"}
      [] OTHER -> {}

EXCLUDED_PARTS == {".pdf", ".zip", ".png", ".jpg", ".gif", "#"}

(* scraper.py:372 any(ext in full_url.lower() for ext in [...]) *)
HasExcludedExt(url) == \E part \in UrlParts(url) : Lower(part) \in EXCLUDED_PARTS


-----------------------------------------------------------------------------
(* The web site: what the server answers.  The documentation site has one  *)
(* of three link graphs; its root page also carries a .pdf link, an anchor *)
(* link, an image link and a link that leaves the category.  The text of the pages and      *)
(* threads with an odd URL number changes with the site version.           *)

GraphKinds == {"ring", "full", "self"}

SiteLinks(g, u) ==
    CASE g = "ring" -> {(u % NDocs) + 1}
      [] g = "full" -> Docs
      [] g = "self" -> IF u = 1 THEN {1} ELSE {}
      [] g = "detour" -> CASE u = 1 -> {2, 3}
                           [] u = 2 -> {5}
                           [] u = 3 -> {4}
                           [] u = 4 -> {5, 6}
                           [] OTHER -> {}
      [] OTHER -> {}

Hrefs(g, u) ==
    SiteLinks(g, u) \cup (IF u = 1 THEN {PdfUrl, AnchorUrl, ImageUrl, ForeignUrl} ELSE {})

(* Content ids: 10*url + version for a page that changes, 10*url + 1 for one that does not. *)
SiteContent(url, version) == 10 * url + (IF url % 2 = 1 THEN version ELSE 1)
SiteTitle(url, version) == 5000 + SiteContent(url, version)

(* The images a page shows (image URLs 700 and up): page 1 shows two       *)
(* images at version 1 and one of them later, page 2 changes its image     *)
(* while its text stays, no other page shows an image.                     *)
SiteImages(url, version) ==
    CASE url = 1 -> IF version = 1 THEN {711, 712} ELSE {712}
      [] url = 2 -> {720 + version}
      [] OTHER -> {}

(* The thread links of listing page n, in document order, with the repeats *)
(* a listing page has (a thread is linked from its title and from its      *)
(* "latest reply" anchor).  The listing pages of the busy board link more   *)
(* threads than two listing pages are taken to have.                       *)
BusyThreads == {ThreadUrl(k) : k \in 1..(2 * THREADS_PER_BOARD + 1)}

BoardHrefs(g, n) ==
    IF g = "busy" THEN [i \in 1..Cardinality(BusyThreads) |-> ThreadUrl(i)]
    ELSE [i \in 1..(2 * NThreads) |-> ThreadUrl(((i + n) % NThreads) + 1)]

(* The length of the text of a content id, and the text itself: sentences  *)
(* of 40 characters ending in ". ".  The root page of version 1 is long   *)
(* (2 chunks), page 2 longer (more chunks than a search returns of a URL). *)
TextLen(content) == IF content = 11 THEN 1800 ELSE IF content = 21 THEN 4000 ELSE 40
TextOf(content) ==
    [i \in 1..TextLen(content) |->
        IF i % 40 = 39 THEN "." ELSE IF i % 40 = 0 THEN " " ELSE "x"]

-----------------------------------------------------------------------------
(* scraper.py:80 content_hash: SHA-256 of the content, an injective digest. *)
content_hash(content) == <<"sha256", content>>

(* Python's hash() of a str: salted per process (PYTHONHASHSEED is random  *)
(* unless set), so it is a function of the salt and the string.            *)
PyHash(seed, s) == seed * 1000 + s

(* list(set(...)): the iteration order of a set of str follows the salted  *)
(* hashes; the model lets an odd salt give ascending order and an even     *)
(* salt descending order.                                                  *)
RECURSIVE AscSeq(_)
AscSeq(S) ==
    IF S = {} THEN <<>>
    ELSE LET m == CHOOSE x \in S : \A y \in S : x <= y
         IN <<m>> \o AscSeq(S \ {m})

Reverse(s) == [i \in 1..Len(s) |-> s[Len(s) + 1 - i]]

SetOrder(seed, S) == IF seed % 2 = 1 THEN AscSeq(S) ELSE Reverse(AscSeq(S))

Range(s) == {s[i] : i \in 1..Len(s)}

(* The links of a page, whatever they point to. *)
find_links_unfiltered(g, u, category, seed) == SetOrder(seed, Hrefs(g, u))

(* scraper.py:357 find_links *)
find_links(g, u, category, seed) ==
    SetOrder(seed, {l \in Hrefs(g, u) : StartsWithBase(l, category) /\ ~HasExcludedExt(l)})

(* scraper.py:312 extract_section_topic depends on the URL only. *)
extract_section(url) == 300 + url
extract_topic(url) == 400 + url

(* scraper.py:413 the dict scrape_page_sync returns for a 200 response. *)
page_data_of(g, url, category, seed, version) ==
    [url |-> url,
     title |-> SiteTitle(url, version),
     content |-> SiteContent(url, version),
     section |-> extract_section(url),
     topic |-> extract_topic(url),
     content_hash |-> content_hash(SiteContent(url, version)),
     links |-> find_links(g, url, category, seed),
     images |-> SiteImages(url, version)]

(* scraper.py:164 extract_community_thread_links: document order, no repeat. *)
RECURSIVE Dedup(_, _)
Dedup(s, acc) ==
    IF s = <<>> THEN acc
    ELSE Dedup(Tail(s), IF Head(s) \in Range(acc) THEN acc ELSE Append(acc, Head(s)))

extract_community_thread_links(g, n) == Dedup(BoardHrefs(g, n), <<>>)

(* scraper.py:262 the dict extract_community_post returns. *)
post_data_of(url, version) ==
    [url |-> url,
     title |-> SiteTitle(url, version),
     content |-> SiteContent(url, version),
     section |-> 600,
     topic |-> 601]

-----------------------------------------------------------------------------
(* rag.py:29 chunk_text.  Python indexes from 0 and a slice clips its      *)
(* bounds (a negative bound counts from the end).                          *)

PyIndex(text, i) == IF i < 0 THEN Max(Len(text) + i, 0) ELSE Min(i, Len(text))

PySlice(text, start, end) ==
    SubSeq(text, PyIndex(text, start) + 1, PyIndex(text, end))

IsSpace(c) == c = " "

RECURSIVE LStrip(_)
LStrip(s) == IF s # <<>> /\ IsSpace(Head(s)) THEN LStrip(Tail(s)) ELSE s

RECURSIVE RStrip(_)
RStrip(s) == IF s # <<>> /\ IsSpace(s[Len(s)]) THEN RStrip(SubSeq(s, 1, Len(s) - 1)) ELSE s

Strip(s) == RStrip(LStrip(s))

(* text.rfind('. ', lo, hi): the highest 0-based index i with lo <= i and  *)
(* i + 2 <= hi at which ". " starts, or -1.                                *)
RFindPeriod(text, lo, hi) ==
    LET l == PyIndex(text, lo)
        h == PyIndex(text, hi)
        hits == {i \in l..(h - 2) : text[i + 1] = "." /\ text[i + 2] = " "}
    IN IF hits = {} THEN -1 ELSE CHOOSE i \in hits : \A j \in hits : j <= i

MaxChunkSteps == 8    \* iterations of the while loop of chunk_text the model follows

(* The loop whose next window starts at the end of this one. *)
RECURSIVE ChunkLoop_ignores_overlap(_, _, _, _, _, _)
ChunkLoop_ignores_overlap(text, chunk_size, overlap, start, chunks, fuel) ==
    IF ~(start < Len(text)) \/ fuel = 0 THEN chunks
    ELSE LET end0 == start + chunk_size
             search_start == Max(end0 - SENTENCE_LOOKBACK, start)
             last_period == RFindPeriod(text, search_start, end0)
             end == IF end0 < Len(text) /\ last_period > search_start
                    THEN last_period + 1 ELSE end0
             chunk == Strip(PySlice(text, start, end))
         IN ChunkLoop_ignores_overlap(text, chunk_size, overlap, end,
                      IF chunk # <<>> THEN Append(chunks, chunk) ELSE chunks, fuel - 1)

(* rag.py:34-51 the while loop of chunk_text. *)
RECURSIVE ChunkLoop(_, _, _, _, _, _)
ChunkLoop(text, chunk_size, overlap, start, chunks, fuel) ==
    IF ~(start < Len(text)) \/ fuel = 0 THEN chunks
    ELSE LET end0 == start + chunk_size
             search_start == Max(end0 - SENTENCE_LOOKBACK, start)
             last_period == RFindPeriod(text, search_start, end0)
             end == IF end0 < Len(text) /\ last_period > search_start
                    THEN last_period + 1 ELSE end0
             chunk == Strip(PySlice(text, start, end))
         IN ChunkLoop(text, chunk_size, overlap, end - overlap,
                      IF chunk # <<>> THEN Append(chunks, chunk) ELSE chunks, fuel - 1)

(* The chunker without the shortcut for a short text. *)
chunk_text_always_loops(text, chunk_size, overlap) ==
    ChunkLoop(text, chunk_size, overlap, 0, <<>>, MaxChunkSteps)

(* rag.py:29 chunk_text *)
chunk_text(text, chunk_size, overlap) ==
    IF Len(text) <= chunk_size THEN <<text>>
    ELSE ChunkLoop(text, chunk_size, overlap, 0, <<>>, MaxChunkSteps)

-----------------------------------------------------------------------------
(* rag.py:138 add_documents_to_vectorstore.  A chunk record keeps the      *)
(* length of its text and the content it was cut from in place of the text.*)

text_chunk_id(category, seed, url, i) == <<category, PyHash(seed, url), i>>

(* rag.py:150 chunk_text(content): the chunks of every content the site    *)
(* serves, computed once.                                                  *)
Contents ==
    {SiteContent(url, version) : url \in Docs \cup DetourDocs \cup Threads \cup BusyThreads,
                                 version \in 1..MaxSiteVersion}
text_chunks_of == [content \in Contents |-> chunk_text(TextOf(content), CHUNK_SIZE, CHUNK_OVERLAP)]

DocChunks(doc, category, seed) ==
    IF doc.content = EmptyContent THEN {}
    ELSE LET text_chunks == text_chunks_of[doc.content]
         IN {[id |-> text_chunk_id(category, seed, doc.url, i - 1),
              text |-> <<doc.content, i - 1, Len(text_chunks[i])>>,
              url |-> doc.url,
              title |-> doc.title,
              section |-> doc.section,
              topic |-> doc.topic,
              category |-> category,
              chunk_type |-> "text",
              chunk_index |-> i - 1,
              total_chunks |-> Len(text_chunks)] : i \in 1..Len(text_chunks)}

(* collection.upsert: a chunk with a known id replaces the stored chunk.   *)
Upsert(coll, chunks) ==
    {c \in coll : \A n \in chunks : n.id # c.id} \cup chunks

add_documents_to_vectorstore(coll, documents, category, seed) ==
    Upsert(coll, UNION {DocChunks(doc, category, seed) : doc \in documents})

-----------------------------------------------------------------------------
(* The relational store: table scraped_pages (database.py:58).  A row is a *)
(* record; id is the INTEGER PRIMARY KEY SQLite assigns (largest id + 1).  *)

NextId(db) == IF db = {} THEN 1 ELSE 1 + (CHOOSE m \in {r.id : r \in db} : \A r \in db : r.id <= m)

RowsOf(db, url) == {r \in db : r.url = url}

(* The clock read by datetime.utcnow(): it advances when a task starts.    *)
Now == Cardinality({i \in 1..Len(tasks) : tasks[i].pc # "created"})

(* The update that leaves the stored fingerprint as it was. *)
UpdatedRow_stale_hash(existing, page_data, category, now) ==
    [existing EXCEPT !.title = page_data.title,
                     !.content = page_data.content,
                     !.section = page_data.section,
                     !.topic = page_data.topic,
                     !.category = category,
                     !.scraped_at = now]

(* scraper.py:675-681 the update in place of an existing row. *)
UpdatedRow(existing, page_data, category, now) ==
    [existing EXCEPT !.title = page_data.title,
                     !.content = page_data.content,
                     !.section = page_data.section,
                     !.topic = page_data.topic,
                     !.category = category,
                     !.content_hash = page_data.content_hash,
                     !.scraped_at = now]

(* scraper.py:697-705 the row inserted for a new page. *)
NewRow(db, page_data, category, now) ==
    [id |-> NextId(db),
     url |-> page_data.url,
     title |-> page_data.title,
     content |-> page_data.content,
     section |-> page_data.section,
     topic |-> page_data.topic,
     category |-> category,
     scraped_at |-> now,
     content_hash |-> page_data.content_hash]

(* The change detector that never looks for an existing row. *)
StorePage_always_inserts(db, page_data, category, now) ==
    db \cup {NewRow(db, page_data, category, now)}

(* scraper.py:670-721 the change detector and the commit of one page. *)
StorePage(db, page_data, category, now) ==
    IF RowsOf(db, page_data.url) # {}
    THEN LET existing == CHOOSE r \in RowsOf(db, page_data.url) :
                             \A o \in RowsOf(db, page_data.url) : r.id <= o.id
         IN IF existing.content_hash # page_data.content_hash
            THEN (db \ {existing}) \cup {UpdatedRow(existing, page_data, category, now)}
            ELSE db
    ELSE db \cup {NewRow(db, page_data, category, now)}

(* Table scraped_images (database.py:78): a row is an image of a page.    *)
ImagesOf(images, page_id) == {i \in images : i.page_id = page_id}

NewImages(page_id, page_data) == {[page_id |-> page_id, url |-> u] : u \in page_data.images}

(* The store that keeps the old images of a changed page. *)
StoreImages_keeps_old(images, db, page_data) ==
    IF RowsOf(db, page_data.url) # {}
    THEN LET existing == CHOOSE r \in RowsOf(db, page_data.url) :
                             \A o \in RowsOf(db, page_data.url) : r.id <= o.id
         IN IF existing.content_hash # page_data.content_hash
            THEN images \cup NewImages(existing.id, page_data)
            ELSE images
    ELSE images \cup NewImages(NextId(db), page_data)

(* scraper.py:670-719 the images of one page in the same commit: those of *)
(* a changed page are deleted and added anew, those of a new page added.  *)
StoreImages(images, db, page_data) ==
    IF RowsOf(db, page_data.url) # {}
    THEN LET existing == CHOOSE r \in RowsOf(db, page_data.url) :
                             \A o \in RowsOf(db, page_data.url) : r.id <= o.id
         IN IF existing.content_hash # page_data.content_hash
            THEN (images \ ImagesOf(images, existing.id)) \cup NewImages(existing.id, page_data)
            ELSE images
    ELSE images \cup NewImages(NextId(db), page_data)

(* scraper.py:759-770 the documents of one category handed to the indexer. *)
CategoryDocuments(db, category) ==
    {[url |-> r.url, title |-> r.title, content |-> r.content,
      section |-> r.section, topic |-> r.topic] :
        r \in {x \in db : x.category = category /\ x.content # EmptyContent}}

-----------------------------------------------------------------------------
(* The background tasks.  pc is the await at which a task is suspended:    *)
(*   created       made by asyncio.create_task, not yet run                *)
(*   fetching      run_scrape, at await scrape_page (scraper.py:666)       *)
(*   sleeping      run_scrape, at await asyncio.sleep (scraper.py:734)     *)
(*   board_sleep   run_community_scrape, at the sleep of scraper.py:500    *)
(*   thread_sleep  run_community_scrape, at the sleep of scraper.py:568    *)
(*   importing     run_document_import, between its start and its end      *)
(*   done, raised  returned, or ended by an exception                      *)

NewTask(kind, category, max_pages) ==
    [kind |-> kind, category |-> category, max_pages |-> max_pages, pc |-> "created",
     visited |-> {}, queue |-> <<>>, url |-> NoUrl,
     page_num |-> 0, thread_idx |-> 0, threads_scraped |-> 0,
     h_order |-> <<>>,          \* history: the URLs the crawl asked for, in the order of the fetches
     h_pages |-> 0,             \* history: the fetches that gave a page
     h_ok |-> TRUE,             \* history: every fetch so far gave a page
     h_failed |-> FALSE,        \* history: a fetch of this task raised or was not a 200
     h_empty_start |-> FALSE,   \* history: the store was empty when the task started
     h_alone |-> FALSE,         \* history: no other task ran while this one did
     h_cancelled |-> FALSE,     \* history: the cancel flag was set while this one ran
     h_version |-> <<0, 0>>,    \* history: site version at the start and at the end
     h_end_rows |-> {},         \* history: <<url, fingerprint>> of the rows at the end
     h_end_ids |-> {}]          \* history: the chunk ids in the index at the end

Active(task) == task.pc \notin {"done", "raised"}
Running(task) == task.pc \notin {"created", "done", "raised"}

InitialState ==
    [in_progress |-> FALSE, progress |-> 0, status_text |-> "Idle", current_url |-> NoUrl,
     pages_scraped |-> 0, total_pages_estimate |-> 0, errors |-> <<>>, category |-> "none"]

(* scraper.py:640-645 and 463-468: the fields a crawl sets when it starts. *)
StartedState(st, category) ==
    [st EXCEPT !.in_progress = TRUE, !.progress = 0, !.status_text = "Starting",
               !.pages_scraped = 0, !.errors = <<>>, !.category = category]

(* scraper.py:738-800 and 573-612: after the loop, in one run of the event *)
(* loop: index the category's pages, then mark the crawl complete.  The    *)
(* result is the new task, status record, store and index.                 *)
Finish(task, st, db, coll, seed) ==
    LET coll2 == add_documents_to_vectorstore(coll, CategoryDocuments(db, task.category),
                                              task.category, seed)
    IN [task |-> [task EXCEPT !.pc = "done", !.url = NoUrl,
                              !.h_end_rows = {<<r.url, r.content_hash>> : r \in db},
                              !.h_end_ids = {c.id : c \in coll2}],
        st |-> [st EXCEPT !.progress = 100, !.status_text = "Complete", !.in_progress = FALSE],
        db |-> db,
        coll |-> coll2]

(* The loop head stopping one page early. *)
WhileHead_stops_early(queue, visited, max_pages) ==
    IF queue # <<>> /\ Cardinality(visited) < max_pages - 1
    THEN [run |-> TRUE, url |-> Head(queue), queue |-> Tail(queue)]
    ELSE [run |-> FALSE, url |-> NoUrl, queue |-> queue]

(* scraper.py:656-660 the head of the while loop: pop until a URL that is  *)
(* not visited is found, the queue is empty or max_pages URLs are visited. *)
RECURSIVE WhileHead(_, _, _)
WhileHead(queue, visited, max_pages) ==
    IF queue # <<>> /\ Cardinality(visited) < max_pages
    THEN IF Head(queue) \in visited
         THEN WhileHead(Tail(queue), visited, max_pages)
         ELSE [run |-> TRUE, url |-> Head(queue), queue |-> Tail(queue)]
    ELSE [run |-> FALSE, url |-> NoUrl, queue |-> queue]

(* The pass that fetches a second URL right after the first. *)
DocsLoop_two_fetches(task, st, db, coll, seed) ==
    LET h == WhileHead(task.queue, task.visited, task.max_pages)
        h2 == WhileHead(h.queue, task.visited \cup {h.url}, task.max_pages + 1)
        urls == IF h2.run THEN <<h.url, h2.url>> ELSE <<h.url>>
    IN IF h.run
       THEN [task |-> [task EXCEPT !.pc = "fetching", !.url = h.url, !.queue = h2.queue,
                                   !.visited = task.visited \cup Range(urls),
                                   !.h_order = task.h_order \o urls],
             st |-> [st EXCEPT !.current_url = h.url, !.status_text = "Scraping"],
             db |-> db,
             coll |-> coll]
       ELSE Finish([task EXCEPT !.queue = h.queue],
                   [st EXCEPT !.status_text = "Indexing"], db, coll, seed)

(* scraper.py:656-666 one pass from the loop head to the next await.       *)
DocsLoop(task, st, db, coll, seed) ==
    LET h == WhileHead(task.queue, task.visited, task.max_pages)
    IN IF h.run
       THEN [task |-> [task EXCEPT !.pc = "fetching", !.url = h.url, !.queue = h.queue,
                                   !.visited = task.visited \cup {h.url},
                                   !.h_order = Append(task.h_order, h.url)],
             st |-> [st EXCEPT !.current_url = h.url, !.status_text = "Scraping"],
             db |-> db,
             coll |-> coll]
       ELSE Finish([task EXCEPT !.queue = h.queue],
                   [st EXCEPT !.status_text = "Indexing"], db, coll, seed)

(* The links appended without the look into the queue. *)
RECURSIVE Enqueue_unqueued_unchecked(_, _, _)
Enqueue_unqueued_unchecked(queue, visited, links) ==
    IF links = <<>> THEN queue
    ELSE Enqueue_unqueued_unchecked(IF Head(links) \notin visited
                                    THEN Append(queue, Head(links)) ELSE queue,
                                    visited, Tail(links))

(* The links put in front of the queue, the last link first. *)
RECURSIVE Enqueue_in_front(_, _, _)
Enqueue_in_front(queue, visited, links) ==
    IF links = <<>> THEN queue
    ELSE Enqueue_in_front(IF Head(links) \notin visited /\ Head(links) \notin Range(queue)
                          THEN <<Head(links)>> \o queue ELSE queue,
                          visited, Tail(links))

(* scraper.py:724-727 the links appended to the queue. *)
RECURSIVE Enqueue(_, _, _)
Enqueue(queue, visited, links) ==
    IF links = <<>> THEN queue
    ELSE Enqueue(IF Head(links) \notin visited /\ Head(links) \notin Range(queue)
                 THEN Append(queue, Head(links)) ELSE queue,
                 visited, Tail(links))

(* scraper.py:730-731 and 564-565; the quotient is kept as its integer part. *)
Progress(n, max_pages) == Min((n * 100) \div max_pages, PROGRESS_CAP)

-----------------------------------------------------------------------------
(* The HTTP handlers of main.py.  A handler runs to its return without     *)
(* suspending; the task it creates runs later, when the event loop reaches *)
(* it.  A handler is modelled by the task list it leaves and the body it   *)
(* returns.                                                                *)

(* No function call has been recorded. *)
NoCall == [op |-> "none"]

Response(status, message) == [status |-> status, message |-> message]
NoResponse == Response("none", "none")

(* scraper.py:75 get_scraper_state *)
get_scraper_state == scraper_state

(* scraper.py:803 start_scrape_background: asyncio.create_task(run_scrape(...)) *)
start_scrape_background(max_pages, category) ==
    Append(tasks, NewTask("scrape", category, max_pages))

(* The check of in_progress left out: every start request starts a job. *)
AlreadyScraping_never(state) == FALSE

(* main.py:656-659, 679-682, 795-798 the check made before a job is started. *)
AlreadyScraping(state) == state.in_progress

(* The start handler without the validation of the category. *)
start_scraper_unvalidated(category, max_pages) ==
    IF AlreadyScraping(get_scraper_state)
    THEN [tasks |-> tasks, response |-> Response("error", "busy")]
    ELSE [tasks |-> start_scrape_background(max_pages, category),
          response |-> Response("started", category)]

(* main.py:642 POST /api/scraper/start *)
start_scraper(category, max_pages) ==
    IF category \notin DOC_CATEGORIES
    THEN [tasks |-> tasks, response |-> Response("error", "unknown_category")]
    ELSE IF AlreadyScraping(get_scraper_state)
    THEN [tasks |-> tasks, response |-> Response("error", "busy")]
    ELSE [tasks |-> start_scrape_background(max_pages, category),
          response |-> Response("started", category)]

(* main.py:673 POST /api/scraper/update: the category is run_scrape's default. *)
start_targeted_scrape(max_pages) ==
    IF AlreadyScraping(get_scraper_state)
    THEN [tasks |-> tasks, response |-> Response("error", "busy")]
    ELSE [tasks |-> start_scrape_background(max_pages, "windchill"),
          response |-> Response("started", "windchill")]

(* main.py:788 POST /api/scraper/import-docs *)
import_documents ==
    IF AlreadyScraping(get_scraper_state)
    THEN [tasks |-> tasks, response |-> Response("error", "busy")]
    ELSE [tasks |-> Append(tasks, NewTask("import", "internal-docs", 0)),
          response |-> Response("started", "internal-docs")]

(* main.py:628 POST /api/scraper/cancel.  cancel_scrape is not part of the *)
(* sources at hand: by the specification it flips the cancellation flag.   *)
cancel_scrape ==
    IF scraper_state.in_progress
    THEN [flag |-> TRUE, response |-> Response("ok", "cancelling")]
    ELSE [flag |-> cancel_requested, response |-> Response("error", "idle")]

MaxPagesFor(category) ==
    IF CategoryType(category) = "community"
    THEN {0, THREADS_PER_BOARD * MaxBoards}
    ELSE (-1)..MaxPages

(* A start request is served: handled is what the handler leaves. *)
Served(handled) ==
    /\ Len(handled.tasks) <= MaxTasks
    /\ tasks' = handled.tasks
    /\ last_response' = IF record_responses THEN handled.response ELSE last_response
    /\ UNCHANGED <<scraper_state, db_pages, db_images, collection, hash_seed, site_version, graph,
                   cancel_requested, record_responses, returned>>

StartScraper(category, max_pages) == Served(start_scraper(category, max_pages))
StartTargetedScrape(max_pages) == Served(start_targeted_scrape(max_pages))
ImportDocuments == Served(import_documents)

CancelScraper ==
    /\ cancel_requested' = cancel_scrape.flag
    /\ last_response' = IF record_responses THEN cancel_scrape.response ELSE last_response
    /\ tasks' = [i \in 1..Len(tasks) |->
                    IF cancel_scrape.flag /\ Running(tasks[i])
                    THEN [tasks[i] EXCEPT !.h_cancelled = TRUE] ELSE tasks[i]]
    /\ UNCHANGED <<scraper_state, db_pages, db_images, collection, hash_seed, site_version, graph,
                   record_responses, returned>>

-----------------------------------------------------------------------------
(* The steps of a background task. *)

(* What a fetch gives: a 200 response with a page ("ok"), a 200 response   *)
(* of a thread with no message to extract ("empty"), a 302 response        *)
(* ("auth"), or another status ("http_error").  session.get follows a      *)
(* redirect (scraper.py:517 passes no allow_redirects=False, as main.py:889 *)
(* does), so the response is a 302 only if the server's 302 names no       *)
(* Location; a 302 to the sign-in page ("redirect") gives that page: a 200 *)
(* response with no message to extract.  A page or listing fetch draws     *)
(* from FetchOutcomes, a thread fetch from ThreadOutcomes.                 *)
FetchOutcomes == {"ok", "http_error"}
ThreadOutcomes == {"ok", "empty", "auth", "redirect"}

(* The thread fetches that append nothing to errors. *)
Unreported == {"ok", "empty", "redirect"}

(* The tasks after task t has taken a step that made it `task`; a task     *)
(* that starts while another runs is not alone, and neither is the other.  *)
TasksAfter(t, task) ==
    LET starting == tasks[t].pc = "created"
        others == \E i \in 1..Len(tasks) : i # t /\ Running(tasks[i])
    IN [i \in 1..Len(tasks) |->
           IF i = t THEN (IF starting THEN [task EXCEPT !.h_alone = ~others] ELSE task)
           ELSE IF starting /\ Running(tasks[i]) THEN [tasks[i] EXCEPT !.h_alone = FALSE]
           ELSE tasks[i]]

(* Task t has taken a step with result r (the new task, status record,    *)
(* store and index).                                                       *)
Apply(t, r) ==
    /\ tasks' = TasksAfter(t, IF r.task.pc = "done"
                              THEN [r.task EXCEPT !.h_version[2] = site_version]
                              ELSE r.task)
    /\ scraper_state' = r.st
    /\ db_pages' = r.db
    /\ db_images' = IF "images" \in DOMAIN r THEN r.images ELSE db_images
    /\ collection' = r.coll
    /\ UNCHANGED <<hash_seed, site_version, graph, cancel_requested, last_response,
                   record_responses, returned>>

Started(task) ==
    [task EXCEPT !.h_empty_start = (db_pages = {}), !.h_version[1] = site_version]

(* scraper.py:615-666 run_scrape from its first statement to its first await. *)
run_scrape_start(task, st, db, coll, seed) ==
    DocsLoop([task EXCEPT !.visited = {}, !.queue = <<BaseUrl(task.category)>>],
             [StartedState(st, task.category) EXCEPT !.total_pages_estimate = task.max_pages],
             db, coll, seed)

RunScrapeStart(t) ==
    /\ tasks[t].pc = "created"
    /\ tasks[t].kind = "scrape"
    /\ tasks[t].category \in DOC_CATEGORIES
    /\ CategoryType(tasks[t].category) = "docs"
    /\ \E r \in {run_scrape_start(Started(tasks[t]), scraper_state, db_pages, collection,
                                          hash_seed)} :
          Apply(t, r)

(* scraper.py:666-734 from the return of scrape_page to the sleep. *)
page_step(task, st, db, images, coll, outcome, g, seed, version, now) ==
    LET page_data == page_data_of(g, task.url, task.category, seed, version)
        got == outcome = "ok"
    IN [task |-> [task EXCEPT !.pc = "sleeping",
                              !.queue = IF got THEN Enqueue(task.queue, task.visited, page_data.links)
                                        ELSE task.queue,
                              !.h_pages = IF got THEN task.h_pages + 1 ELSE task.h_pages,
                              !.h_ok = task.h_ok /\ got,
                              !.h_failed = task.h_failed \/ ~got],
        st |-> [st EXCEPT !.pages_scraped = IF got THEN st.pages_scraped + 1 ELSE st.pages_scraped,
                          !.errors = IF got THEN st.errors ELSE Append(st.errors, <<outcome, task.url>>),
                          !.progress = Progress(Cardinality(task.visited), task.max_pages)],
        db |-> IF got THEN StorePage(db, page_data, task.category, now) ELSE db,
        images |-> IF got THEN StoreImages(images, db, page_data) ELSE images,
        coll |-> coll]

PageFetched(t, outcome) ==
    /\ tasks[t].pc = "fetching"
    /\ \E r \in {page_step(tasks[t], scraper_state, db_pages, db_images, collection, outcome, graph,
                                   hash_seed, site_version, Now)} :
          Apply(t, r)

(* scraper.py:734-656 the sleep ends and the loop head runs again. *)
PageSleepEnds(t) ==
    /\ tasks[t].pc = "sleeping"
    /\ \E r \in {DocsLoop(tasks[t], scraper_state, db_pages, collection, hash_seed)} :
          Apply(t, r)

-----------------------------------------------------------------------------
(* run_community_scrape (scraper.py:442).  The task's queue is             *)
(* thread_queue and its visited set is scraped_threads.                    *)

(* The number of listing pages that does not depend on max_threads. *)
max_board_pages_unbounded(max_threads) == MAX_BOARD_PAGES

max_board_pages(max_threads) == Min(MAX_BOARD_PAGES, max_threads \div THREADS_PER_BOARD)

(* scraper.py:524-549 the change detector and the commit of one thread. *)
StoreThread(db, post_data, category, now) ==
    LET new_hash == content_hash(post_data.content)
        hashed == [url |-> post_data.url, title |-> post_data.title,
                   content |-> post_data.content, section |-> post_data.section,
                   topic |-> post_data.topic, content_hash |-> new_hash]
    IN IF RowsOf(db, post_data.url) # {}
       THEN LET existing == CHOOSE r \in RowsOf(db, post_data.url) :
                                \A o \in RowsOf(db, post_data.url) : r.id <= o.id
            IN IF existing.content_hash # new_hash
               THEN (db \ {existing}) \cup {UpdatedRow(existing, hashed, category, now)}
               ELSE db
       ELSE db \cup {NewRow(db, hashed, category, now)}

(* scraper.py:510-568 phase 2 from thread number idx of the list to the    *)
(* next sleep, or to the end of the crawl when the list is exhausted.      *)
RECURSIVE ThreadLoop(_, _, _, _, _, _, _, _, _)
ThreadLoop(task, st, db, coll, idx, outcome, seed, version, now) ==
    LET list == SubSeq(task.queue, 1, Min(Len(task.queue), task.max_pages))
    IN IF idx > Len(list)
       THEN Finish(task, [st EXCEPT !.status_text = "Indexing"], db, coll, seed)
       ELSE IF list[idx] \in task.visited
       THEN ThreadLoop(task, st, db, coll, idx + 1, outcome, seed, version, now)
       ELSE LET thread_url == list[idx]
                got == outcome = "ok"
                threads_scraped == IF got THEN task.threads_scraped + 1
                                   ELSE task.threads_scraped
                errors == IF outcome \in Unreported THEN st.errors
                          ELSE Append(st.errors, <<outcome, thread_url>>)
            IN [task |-> [task EXCEPT !.pc = "thread_sleep", !.thread_idx = idx,
                                      !.url = thread_url,
                                      !.visited = task.visited \cup {thread_url},
                                      !.h_order = Append(task.h_order, thread_url),
                                      !.threads_scraped = threads_scraped,
                                      !.h_pages = IF got THEN task.h_pages + 1 ELSE task.h_pages,
                                      !.h_ok = task.h_ok /\ got,
                                      !.h_failed = task.h_failed
                                                      \/ outcome \notin Unreported],
                    st |-> [st EXCEPT !.current_url = thread_url,
                                      !.pages_scraped = IF got THEN threads_scraped
                                                        ELSE st.pages_scraped,
                                      !.errors = errors,
                                      !.progress = Progress(threads_scraped, task.max_pages),
                                      !.status_text = "Scraped"],
                    db |-> IF got THEN StoreThread(db, post_data_of(thread_url, version),
                                                   task.category, now)
                           ELSE db,
                    coll |-> coll]

(* scraper.py:505-510 between the two phases. *)
Phase2(task, st, db, coll, outcome, seed, version, now) ==
    ThreadLoop([task EXCEPT !.threads_scraped = 0],
               [st EXCEPT !.total_pages_estimate = Min(Len(task.queue), task.max_pages),
                          !.status_text = "Found"],
               db, coll, 1, outcome, seed, version, now)

(* scraper.py:484-500 phase 1 from listing page page_num to the next sleep. *)
BoardLoop(task, st, db, coll, page_num, outcome, g, seed, version, now) ==
    IF page_num > max_board_pages(task.max_pages)
    THEN Phase2(task, st, db, coll, outcome, seed, version, now)
    ELSE LET board_url == BoardUrl(page_num)
             thread_links == IF outcome = "ok" THEN extract_community_thread_links(g, page_num)
                             ELSE <<>>
         IN [task |-> [task EXCEPT !.pc = "board_sleep", !.page_num = page_num,
                                   !.url = board_url,
                                   !.h_order = Append(task.h_order, board_url),
                                   !.queue = Enqueue(task.queue, task.visited, thread_links),
                                   !.h_ok = task.h_ok /\ outcome = "ok",
                                   !.h_failed = task.h_failed \/ outcome # "ok"],
             st |-> [st EXCEPT !.current_url = board_url,
                               !.errors = IF outcome = "ok" THEN st.errors
                                          ELSE Append(st.errors, <<outcome, board_url>>)],
             db |-> db,
             coll |-> coll]

(* scraper.py:442-500 from the first statement to the first sleep. *)
run_community_scrape_start(task, st, db, coll, outcome, g, seed, version, now) ==
    BoardLoop([task EXCEPT !.visited = {}, !.queue = <<>>],
              [StartedState(st, task.category) EXCEPT !.status_text = "Collecting"],
              db, coll, 1, outcome, g, seed, version, now)

CommunityStart(t, outcome) ==
    /\ tasks[t].pc = "created"
    /\ tasks[t].kind = "scrape"
    /\ tasks[t].category \in DOC_CATEGORIES
    /\ CategoryType(tasks[t].category) = "community"
    /\ outcome \in FetchOutcomes
    /\ \E r \in {run_community_scrape_start(Started(tasks[t]), scraper_state, db_pages,
                                                    collection, outcome, graph, hash_seed,
                                                    site_version, Now + 1)} :
          Apply(t, r)

(* scraper.py:500-503 the sleep of phase 1 ends. *)
BoardSleepEnds(t, outcome) ==
    /\ tasks[t].pc = "board_sleep"
    /\ IF Len(tasks[t].queue) >= tasks[t].max_pages
          \/ tasks[t].page_num + 1 > max_board_pages(tasks[t].max_pages)
       THEN outcome \in ThreadOutcomes ELSE outcome \in FetchOutcomes
    /\ \E r \in {IF Len(tasks[t].queue) >= tasks[t].max_pages
                         THEN Phase2(tasks[t], scraper_state, db_pages, collection, outcome,
                                     hash_seed, site_version, Now)
                         ELSE BoardLoop(tasks[t], scraper_state, db_pages, collection,
                                        tasks[t].page_num + 1, outcome, graph, hash_seed,
                                        site_version, Now)} :
          Apply(t, r)

(* scraper.py:568-510 the sleep of phase 2 ends. *)
ThreadSleepEnds(t, outcome) ==
    /\ tasks[t].pc = "thread_sleep"
    /\ \E r \in {ThreadLoop(tasks[t], scraper_state, db_pages, collection,
                                    tasks[t].thread_idx + 1, outcome, hash_seed, site_version, Now)} :
          Apply(t, r)

-----------------------------------------------------------------------------
(* run_document_import is not part of the sources at hand: by the          *)
(* specification an import job sets in_progress when it starts and resets  *)
(* it when it ends.                                                        *)
ImportStart(t) ==
    /\ tasks[t].pc = "created"
    /\ tasks[t].kind = "import"
    /\ tasks' = TasksAfter(t, [Started(tasks[t]) EXCEPT !.pc = "importing"])
    /\ scraper_state' = StartedState(scraper_state, tasks[t].category)
    /\ UNCHANGED <<db_pages, db_images, collection, hash_seed, site_version, graph, cancel_requested,
                   last_response, record_responses, returned>>

ImportEnd(t) ==
    /\ tasks[t].pc = "importing"
    /\ tasks' = [tasks EXCEPT ![t].pc = "done", ![t].h_version[2] = site_version]
    /\ scraper_state' = [scraper_state EXCEPT !.in_progress = FALSE, !.progress = 100,
                                              !.status_text = "Complete"]
    /\ UNCHANGED <<db_pages, db_images, collection, hash_seed, site_version, graph, cancel_requested,
                   last_response, record_responses, returned>>

-----------------------------------------------------------------------------
(* The environment. *)

(* The site's content changes. *)
SiteChange ==
    /\ site_version < MaxSiteVersion
    /\ site_version' = site_version + 1
    /\ UNCHANGED <<scraper_state, tasks, db_pages, db_images, collection, hash_seed, graph,
                   cancel_requested, last_response, record_responses, returned>>

(* The server process is stopped while no task is active and started       *)
(* again: the module-level state is rebuilt (scraper.py:17), the str-hash  *)
(* salt is drawn anew, the SQLite file and the ChromaDB directory stay.    *)
Restart ==
    /\ \A i \in 1..Len(tasks) : ~Active(tasks[i])
    /\ scraper_state' = InitialState
    /\ hash_seed' \in 1..NSeeds
    /\ cancel_requested' = FALSE
    /\ last_response' = NoResponse
    /\ UNCHANGED <<tasks, db_pages, db_images, collection, site_version, graph, record_responses, returned>>

-----------------------------------------------------------------------------
(* Specifications.  Spec: crawls, site changes and restarts.  ReqSpec: the *)
(* responses of the requests are kept and the cancel call is made, on a    *)
(* site that does not change and a process that is not restarted.          *)

Init ==
    /\ scraper_state = InitialState
    /\ tasks = <<>>
    /\ db_pages = {}
    /\ db_images = {}
    /\ collection = {}
    /\ hash_seed = 1
    /\ site_version = 1
    /\ graph \in GraphKinds
    /\ cancel_requested = FALSE
    /\ last_response = NoResponse
    /\ record_responses = FALSE
    /\ returned = NoCall

Requests ==
    \/ \E category \in RequestCategories : \E max_pages \in MaxPagesFor(category) :
          StartScraper(category, max_pages)
    \/ \E max_pages \in MaxPagesFor("windchill") : StartTargetedScrape(max_pages)
    \/ ImportDocuments

TaskSteps ==
    \/ \E t \in 1..Len(tasks) : RunScrapeStart(t)
    \/ \E t \in 1..Len(tasks) : \E outcome \in FetchOutcomes : PageFetched(t, outcome)
    \/ \E t \in 1..Len(tasks) : PageSleepEnds(t)
    \/ \E t \in 1..Len(tasks) : \E outcome \in FetchOutcomes : CommunityStart(t, outcome)
    \/ \E t \in 1..Len(tasks) : \E outcome \in FetchOutcomes \cup ThreadOutcomes :
          BoardSleepEnds(t, outcome)
    \/ \E t \in 1..Len(tasks) : \E outcome \in ThreadOutcomes : ThreadSleepEnds(t, outcome)
    \/ \E t \in 1..Len(tasks) : ImportStart(t)
    \/ \E t \in 1..Len(tasks) : ImportEnd(t)

(* The service: requests, the steps of the tasks, changes of the site and  *)
(* restarts of the process.                                                *)
Next == Requests \/ TaskSteps \/ SiteChange \/ Restart

Spec == Init /\ [][Next]_vars

(* The service with the body of the last response kept, and the cancel     *)
(* request.                                                                *)
InitReq ==
    /\ scraper_state = InitialState
    /\ tasks = <<>>
    /\ db_pages = {}
    /\ db_images = {}
    /\ collection = {}
    /\ hash_seed = 1
    /\ site_version = 1
    /\ graph \in GraphKinds
    /\ cancel_requested = FALSE
    /\ last_response = NoResponse
    /\ record_responses = TRUE
    /\ returned = NoCall

NextReq == Requests \/ TaskSteps \/ CancelScraper

ReqSpec == InitReq /\ [][NextReq]_vars

(* Documentation crawls alone: start requests for the docs category and   *)
(* the steps of run_scrape.  The event loop runs every task that is ready, *)
(* every fetch returns and every sleep ends: each task's steps are weakly  *)
(* fair.                                                                   *)
DocsStep(t) ==
    /\ t <= Len(tasks)
    /\ \/ RunScrapeStart(t)
       \/ \E outcome \in FetchOutcomes : PageFetched(t, outcome)
       \/ PageSleepEnds(t)

CrawlNext ==
    \/ \E max_pages \in MaxPagesFor("windchill") : StartScraper("windchill", max_pages)
    \/ \E t \in 1..Len(tasks) : RunScrapeStart(t)
    \/ \E t \in 1..Len(tasks) : \E outcome \in FetchOutcomes : PageFetched(t, outcome)
    \/ \E t \in 1..Len(tasks) : PageSleepEnds(t)

CrawlSpec == Init /\ [][CrawlNext]_vars /\ \A t \in 1..MaxTasks : WF_vars(DocsStep(t))

-----------------------------------------------------------------------------
(* Shorthands of the properties. *)

TaskIds == 1..MaxTasks
IsTask(t) == t <= Len(tasks)
IsDocsCrawl(task) == task.kind = "scrape" /\ CategoryType(task.category) = "docs"
IsCommunityCrawl(task) == task.kind = "scrape" /\ CategoryType(task.category) = "community"
NoDuplicate(s) == \A i, j \in 1..Len(s) : s[i] = s[j] => i = j

(* The documentation pages reachable from the root through the links the   *)
(* crawler follows.                                                        *)
RECURSIVE ReachFrom(_, _)
ReachFrom(g, S) ==
    LET more == S \cup UNION {SiteLinks(g, u) : u \in S}
    IN IF more = S THEN S ELSE ReachFrom(g, more)
Reachable(g) == ReachFrom(g, {1})

-----------------------------------------------------------------------------
(* C1: at most one crawl or import job is active at any time: no reachable *)
(* state has two tasks that were created and have not finished.  The code  *)
(* checks in_progress in the handler and sets it in the task's first step, *)
(* so a second request served in between creates a second task.            *)
C1_AtMostOneActiveJob ==
    Cardinality({t \in 1..Len(tasks) : Active(tasks[t])}) <= 1

-----------------------------------------------------------------------------
(* C2: a start request (start, update or import-docs) served while         *)
(* in_progress is true returns an error result, creates no task and leaves *)
(* the status record, the store and the index unchanged.  The error is the *)
(* busy one, except that /api/scraper/start names an unknown category      *)
(* first when the category is not configured.                              *)
C2_IsStartRequest ==
    \/ \E category \in RequestCategories : \E max_pages \in MaxPagesFor(category) :
          StartScraper(category, max_pages)
    \/ \E max_pages \in MaxPagesFor("windchill") : StartTargetedScrape(max_pages)
    \/ ImportDocuments

-----------------------------------------------------------------------------
(* The queue and the visited set with which task t reaches the head of the *)
(* docs loop in its next step: the initial ones for a task that has not    *)
(* run yet (scraper.py:648-649), its own ones after the sleep.             *)
HeadQueue(task) == IF task.pc = "created" THEN <<BaseUrl(task.category)>> ELSE task.queue
HeadVisited(task) == IF task.pc = "created" THEN {} ELSE task.visited

(* Task t takes the step that evaluates the loop condition. *)
AtLoopHead(t) ==
    /\ IsTask(t)
    /\ IsDocsCrawl(tasks[t])
    /\ tasks[t].pc \in {"created", "sleeping"}
    /\ tasks'[t].pc # tasks[t].pc

(* C3 as stated: the docs loop stops exactly when the queue is empty or    *)
(* |visited| = max_pages.  A crawl asked for with max_pages = -1 stops at  *)
(* once with the root in the queue and nothing visited.                    *)
C3_StopsExactlyAtMaxPages ==
    [][\A t \in TaskIds : AtLoopHead(t) =>
          (tasks'[t].pc = "done" <=>
              (HeadQueue(tasks[t]) = <<>>
                  \/ Cardinality(HeadVisited(tasks[t])) = tasks[t].max_pages))]_vars

(* C3 amended, first half: the docs loop stops exactly when the queue is   *)
(* empty or |visited| >= max_pages (which is |visited| = max_pages when    *)
(* max_pages >= 0), and the exit leaves the queue and the visited set as   *)
(* the loop head found them.                                               *)
C3_StopsExactly ==
    [][\A t \in TaskIds : AtLoopHead(t) =>
          /\ (tasks'[t].pc = "done" <=>
                 (HeadQueue(tasks[t]) = <<>>
                     \/ Cardinality(HeadVisited(tasks[t])) >= tasks[t].max_pages))
          /\ tasks'[t].pc = "done" =>
                 /\ tasks'[t].queue = HeadQueue(tasks[t])
                 /\ tasks'[t].visited = HeadVisited(tasks[t])
                 /\ (tasks[t].max_pages >= 0 /\ tasks'[t].queue # <<>>) =>
                        Cardinality(tasks'[t].visited) = tasks[t].max_pages
          /\ tasks'[t].pc # "done" => tasks'[t].pc = "fetching"]_vars

(* C3 amended, second half: when every fetch returns (each task keeps      *)
(* taking its steps), a docs crawl that has been created ends.             *)
C3_Terminates ==
    \A t \in TaskIds :
        (IsTask(t) /\ IsDocsCrawl(tasks[t])) ~> (IsTask(t) /\ tasks[t].pc = "done")

(* C3 amended: for any link graph and any max_pages the docs loop ends,    *)
(* and it stops exactly when the queue is empty or |visited| >= max_pages. *)
C3_LoopTerminates == C3_StopsExactly /\ C3_Terminates

(* A crawl whose max_pages exceeds the pages the root reaches has ended    *)
(* with an empty queue and fewer than max_pages URLs visited.              *)
C3_Witness ==
    \E t \in 1..Len(tasks) :
        /\ IsDocsCrawl(tasks[t])
        /\ tasks[t].pc = "done"
        /\ tasks[t].max_pages > Cardinality(Reachable(graph))
        /\ tasks[t].queue = <<>>
        /\ tasks[t].visited = Reachable(graph)

-----------------------------------------------------------------------------
(* C4: in every state of a running docs crawl started with max_pages >= 0, *)
(* pages_scraped <= |visited| <= max_pages.  pages_scraped is a field of   *)
(* the shared status record: when two crawls run at once (C1), each resets *)
(* it and each adds to it.                                                 *)
C4_PagesScrapedBounded ==
    \A t \in 1..Len(tasks) :
        (IsDocsCrawl(tasks[t]) /\ Running(tasks[t]) /\ tasks[t].max_pages >= 0) =>
            /\ scraper_state.pages_scraped <= Cardinality(tasks[t].visited)
            /\ Cardinality(tasks[t].visited) <= tasks[t].max_pages

-----------------------------------------------------------------------------
(* C5: the frontier never holds a URL twice nor a URL that was visited: in *)
(* every state of a docs crawl the queue has no duplicate and is disjoint  *)
(* from visited, and the thread queue of a community crawl has no          *)
(* duplicate.                                                              *)
C5_FrontierNoDuplicates ==
    \A t \in 1..Len(tasks) :
        /\ IsDocsCrawl(tasks[t]) =>
              /\ NoDuplicate(tasks[t].queue)
              /\ Range(tasks[t].queue) \cap tasks[t].visited = {}
        /\ IsCommunityCrawl(tasks[t]) => NoDuplicate(tasks[t].queue)

(* A docs crawl has read two pages that both link to a page still queued   *)
(* and to the pages visited, and a community crawl has harvested a listing *)
(* page that links every thread twice.                                     *)
C5_Witness ==
    /\ graph = "full"
    /\ \E t \in 1..Len(tasks) :
          /\ IsDocsCrawl(tasks[t])
          /\ tasks[t].h_pages >= 2
          /\ tasks[t].queue # <<>>
    /\ \E t \in 1..Len(tasks) :
          /\ IsCommunityCrawl(tasks[t])
          /\ Len(tasks[t].queue) = NThreads

-----------------------------------------------------------------------------
(* C6: once a cancel call has flipped the cancellation flag during a       *)
(* crawl, the crawl fetches no further page: the set of URLs it has set    *)
(* out to fetch does not grow.  run_scrape and run_community_scrape never  *)
(* read a cancellation flag.                                               *)
C6_NoFetchAfterCancel ==
    [][\A t \in TaskIds :
          (IsTask(t) /\ tasks[t].kind = "scrape" /\ tasks[t].h_cancelled) =>
              tasks'[t].visited \subseteq tasks[t].visited]_vars

-----------------------------------------------------------------------------
(* C7: when every fetch succeeds, the store is empty at the start and at   *)
(* least max_pages pages are reachable from the root, a docs crawl ends    *)
(* with exactly max_pages rows of distinct URLs, pages_scraped = max_pages *)
(* and in_progress false.  Stated of the step that ends the crawl.  A      *)
(* second crawl running at once (C1) adds its own rows and counts.         *)
C7_EndsWith(t) ==
    /\ IsTask(t)
    /\ IsDocsCrawl(tasks[t])
    /\ tasks[t].pc # "done"
    /\ tasks'[t].pc = "done"
    /\ tasks'[t].h_ok
    /\ tasks'[t].h_empty_start
    /\ tasks[t].max_pages >= 0
    /\ Cardinality(Reachable(graph)) >= tasks[t].max_pages

C7_ExactlyMaxPages ==
    [][\A t \in TaskIds : C7_EndsWith(t) =>
          /\ Cardinality(db_pages') = tasks[t].max_pages
          /\ Cardinality({r.url : r \in db_pages'}) = tasks[t].max_pages
          /\ scraper_state'.pages_scraped = tasks[t].max_pages
          /\ ~scraper_state'.in_progress]_vars

-----------------------------------------------------------------------------
(* C8: a page fetched with success is inserted as one row when the store   *)
(* has no row of its URL, and when the row of its URL has another          *)
(* fingerprint that row is updated in place (title, content, section,      *)
(* topic, category, fingerprint, time) and no other row appears; in every  *)
(* state the store has at most one row per URL.                            *)
StoreStep(t) == IsTask(t) /\ tasks[t].kind = "scrape" /\ tasks'[t].h_pages = tasks[t].h_pages + 1
StoredUrl(t) == IF IsDocsCrawl(tasks[t]) THEN tasks[t].url ELSE tasks'[t].url

C8_OneRowPerUrl == \A r1, r2 \in db_pages : r1.url = r2.url => r1 = r2

C8_Detects(t) ==
    LET u == StoredUrl(t)
        new_content == SiteContent(u, site_version)
        old == RowsOf(db_pages, u)
        new == RowsOf(db_pages', u)
    IN /\ db_pages' \ new = db_pages \ old
       /\ Cardinality(new) = 1
       /\ \A r \in new :
             /\ r.content = new_content
             /\ r.content_hash = content_hash(new_content)
             /\ r.title = SiteTitle(u, site_version)
             /\ r.category = tasks[t].category
       /\ old = {} => \A r \in new : r.id \notin {o.id : o \in db_pages}
       /\ \A o \in old : \A r \in new :
             /\ r.id = o.id
             /\ o.content_hash # content_hash(new_content) =>
                    (r.scraped_at = Now /\ r.section = o.section /\ r.topic = o.topic)
             /\ o.content_hash = content_hash(new_content) => r = o

C8_ChangeDetection ==
    /\ []C8_OneRowPerUrl
    /\ [][\A t \in TaskIds : StoreStep(t) => C8_Detects(t)]_vars

(* The root page, stored by the first crawl before the site changed, was   *)
(* fetched again by the second crawl after the change and its row was      *)
(* updated in place.                                                       *)
C8_Witness ==
    /\ Len(tasks) = 2
    /\ IsDocsCrawl(tasks[1])
    /\ tasks[1].h_pages >= 1
    /\ tasks[1].h_version = <<1, 1>>
    /\ \E r \in db_pages :
          /\ r.url = 1
          /\ r.id = 1
          /\ r.content = SiteContent(1, 2)
          /\ r.scraped_at = 2

-----------------------------------------------------------------------------
(* C9: in every committed state of the store, every row has the            *)
(* fingerprint of its own content, whether it was inserted or updated and  *)
(* wherever the crawl stopped.                                             *)
C9_FingerprintMatchesContent ==
    \A r \in db_pages : r.content_hash = content_hash(r.content)

(* A forum thread stored by a first community crawl was updated by a       *)
(* second one after its text changed, while a fetch of that crawl failed.  *)
C9_Witness ==
    /\ Len(tasks) = 2
    /\ IsCommunityCrawl(tasks[1])
    /\ tasks[1].h_ok
    /\ tasks[1].h_version = <<1, 1>>
    /\ IsCommunityCrawl(tasks[2])
    /\ ~tasks[2].h_ok
    /\ \E r \in db_pages :
          /\ r.url = ThreadUrl(1)
          /\ r.content = SiteContent(ThreadUrl(1), 2)
          /\ r.scraped_at = 2

-----------------------------------------------------------------------------
(* C10: running the same crawl twice over an unchanged site is idempotent: *)
(* after the second run the store has the same URL-to-fingerprint map and  *)
(* the index the same chunk ids as after the first.  The two runs are      *)
(* alone, all their fetches succeed and the site has one version from the  *)
(* start of the first to the end of the second.  A restart between the     *)
(* runs changes the salt of hash() and with it the chunk ids (C11) and the *)
(* order of the links.                                                     *)
C10_SameCrawlTwice ==
    /\ Len(tasks) = 2
    /\ \A t \in 1..2 :
          /\ tasks[t].kind = "scrape"
          /\ tasks[t].pc = "done"
          /\ tasks[t].h_alone
          /\ tasks[t].h_ok
    /\ tasks[1].category = tasks[2].category
    /\ tasks[1].max_pages = tasks[2].max_pages
    /\ \E version \in 1..MaxSiteVersion : \A t \in 1..2 : tasks[t].h_version = <<version, version>>

C10_IdempotentRecrawl ==
    C10_SameCrawlTwice =>
        /\ tasks[2].h_end_rows = tasks[1].h_end_rows
        /\ tasks[2].h_end_ids = tasks[1].h_end_ids

-----------------------------------------------------------------------------
(* C11: the id of a text chunk is a function of (category, source URL,     *)
(* chunk index) only, in the same and in a later run of the program, so    *)
(* the index never holds two text chunks of one (category, URL, chunk      *)
(* index).  The id is built from hash(url) (rag.py:154), which Python      *)
(* salts anew in every process.                                            *)
C11_OneChunkPerTriple ==
    \A c, d \in collection :
        (c.category = d.category /\ c.url = d.url /\ c.chunk_index = d.chunk_index)
            => c.id = d.id

-----------------------------------------------------------------------------
(* The step in which a crawl indexes its category and completes, and the  *)
(* text chunks the index holds under the ids this process makes.          *)
IndexStep(t) ==
    /\ IsTask(t)
    /\ tasks[t].kind = "scrape"
    /\ tasks[t].pc # "done"
    /\ tasks'[t].pc = "done"

IndexedChunks(coll, category, url, seed) ==
    {c \in coll : /\ c.category = category
                  /\ c.url = url
                  /\ c.chunk_type = "text"
                  /\ c.id = text_chunk_id(category, seed, url, c.chunk_index)}

(* C12: re-crawling a page whose content changed replaces its prior        *)
(* chunks.  When a crawl has indexed its category, the text chunks the     *)
(* index holds for a stored page of the category are exactly the chunks of *)
(* the page's stored content, whatever the chunk counts of the old and of  *)
(* the new content.  Only ids made by this process (the current hash seed) *)
(* are looked at, so that the salted ids of C11 are not what is measured.  *)
C12_ReindexReplacesChunks ==
    [][\A t \in TaskIds : IndexStep(t) =>
          \A doc \in CategoryDocuments(db_pages', tasks[t].category) :
              IndexedChunks(collection', tasks[t].category, doc.url, hash_seed)
                  = DocChunks(doc, tasks[t].category, hash_seed)]_vars

-----------------------------------------------------------------------------
(* Removing pages: DELETE /api/category/{category} and POST /api/reset.    *)
(* Both handlers run to their return without suspending                    *)
(* (delete_category_from_vectorstore has no await inside).                 *)

(* The delete that leaves out the category filter. *)
delete_category_from_vectorstore_unfiltered(coll, category) ==
    [coll |-> {}, count |-> Cardinality(coll)]

(* rag.py:237 delete_category_from_vectorstore: the ids of the chunks      *)
(* whose category equals the given one are fetched and deleted; the value  *)
(* is their number.                                                        *)
delete_category_from_vectorstore(coll, category) ==
    LET ids_to_delete == {c.id : c \in {x \in coll : x.category = category}}
    IN [coll |-> {c \in coll : c.id \notin ids_to_delete},
        count |-> Cardinality(ids_to_delete)]

(* main.py:464 clear_category: what the handler leaves and returns. *)
clear_category(db, images, coll, category) ==
    LET count == Cardinality({r \in db : r.category = category})
        page_ids == {r.id : r \in {p \in db : p.category = category}}
        deleted == delete_category_from_vectorstore(coll, category)
    IN IF count = 0
       THEN [db |-> db, images |-> images, coll |-> coll,
             response |-> Response("warning", "no-documents"),
             call |-> NoCall]
       ELSE [db |-> {r \in db : r.category # category},
             images |-> {i \in images : i.page_id \notin page_ids},
             coll |-> deleted.coll,
             response |-> Response("success", "cleared"),
             call |-> [op |-> "delete_category_from_vectorstore",
                       category |-> category,
                       value |-> deleted.count]]

(* main.py:446 reset_knowledge_base: every row of scraped_pages is deleted; *)
(* table scraped_images and the vector store are not touched.              *)
reset_knowledge_base(db, images, coll) ==
    [db |-> {}, images |-> images, coll |-> coll, response |-> Response("success", "reset"), call |-> NoCall]

(* A removal request is served. *)
Removed(handled) ==
    /\ db_pages' = handled.db
    /\ db_images' = handled.images
    /\ collection' = handled.coll
    /\ returned' = handled.call
    /\ last_response' = IF record_responses THEN handled.response ELSE last_response
    /\ UNCHANGED <<scraper_state, tasks, hash_seed, site_version, graph,
                   cancel_requested, record_responses>>

ClearCategory(category) == Removed(clear_category(db_pages, db_images, collection, category))
ResetKnowledgeBase == Removed(reset_knowledge_base(db_pages, db_images, collection))

(* AdminSpec: crawls of both kinds of category, category clears and resets *)
(* on a site that does not change.                                         *)
AdminNext ==
    \/ \E category \in DOC_CATEGORIES : \E max_pages \in MaxPagesFor(category) :
          StartScraper(category, max_pages)
    \/ \E t \in 1..Len(tasks) : RunScrapeStart(t)
    \/ \E t \in 1..Len(tasks) : \E outcome \in FetchOutcomes : PageFetched(t, outcome)
    \/ \E t \in 1..Len(tasks) : PageSleepEnds(t)
    \/ \E t \in 1..Len(tasks) : \E outcome \in FetchOutcomes : CommunityStart(t, outcome)
    \/ \E t \in 1..Len(tasks) : \E outcome \in FetchOutcomes \cup ThreadOutcomes :
          BoardSleepEnds(t, outcome)
    \/ \E t \in 1..Len(tasks) : \E outcome \in ThreadOutcomes : ThreadSleepEnds(t, outcome)
    \/ \E category \in RequestCategories : ClearCategory(category)
    \/ ResetKnowledgeBase

AdminSpec == Init /\ [][AdminNext]_vars

(* C13: after any sequence of crawls, category clears and resets, every    *)
(* chunk in the index references a live page: a row with the chunk's       *)
(* source URL is in the store.                                             *)
C13_ChunksReferenceLivePages ==
    \A c \in collection : \E r \in db_pages : r.url = c.url

(* The step in which DELETE /api/category/{category} calls                 *)
(* delete_category_from_vectorstore(category): of the steps that leave the *)
(* tasks alone, the only one that changes the store and records the call.  *)
DeleteCategoryStep(category) ==
    /\ tasks' = tasks
    /\ db_pages' # db_pages
    /\ returned'.op = "delete_category_from_vectorstore"
    /\ returned'.category = category

-----------------------------------------------------------------------------
(* The retriever: rag.py:271 search_similar_documents.  A missing filter    *)
(* (None) is NoTopic or NoCategory.                                        *)

NoTopic == 0
NoCategory == "none"

(* embedding_model.encode (rag.py:219, 278): a fixed map from a text to a   *)
(* point of the embedding space; the model's space is a line of            *)
(* EmbeddingPoints points.  A chunk's text is <<content id, chunk index,   *)
(* length>>, a query is a number.                                          *)
encode(text) == (3 * text[1] + 5 * text[2] + text[3]) % EmbeddingPoints
encode_query(query) == query % EmbeddingPoints
Distance(a, b) == IF a < b THEN b - a ELSE a - b

(* The product names in a URL as they are written there.  The pages of     *)
(* the windchill documentation have "windchill" in their URL and those of  *)
(* the Windchill board "Windchill" (database.py:100, 110); page 3 is a     *)
(* page about the Creo integration and has both names.  The pages of the   *)
(* creo documentation have "creo" and those of the Creo board "Creo"       *)
(* (database.py:105, 115).                                                 *)
CreoUrl(k) == 300 + k
UrlWords(url) ==
    CASE url \in Docs \cup DetourDocs -> IF url = 3 THEN {"windchill", "creo"} ELSE {"windchill"}
      [] url \in {PdfUrl, AnchorUrl, ImageUrl} -> {"windchill"}
      [] url >= 100 /\ url < 300 -> {"Windchill"}
      [] url = CreoUrl(1) -> {"creo"}
      [] url = CreoUrl(2) -> {"Creo"}
      [] OTHER -> {}

(* The URL test that compares the names as they are written. *)
UrlHas_as_written(url, word) == word \in UrlWords(url)

(* rag.py:329-333 word in url.lower() *)
UrlHas(url, word) == word \in {Lower(w) : w \in UrlWords(url)}

(* The order in which the index returns chunks: nearest first; chunks at    *)
(* the same distance in the order of source URL and chunk index.           *)
CategoryRank(category) == IF category = "windchill" THEN 1 ELSE 2
QueryKey(c, query_embedding) ==
    <<Distance(encode(c.text), query_embedding), c.url, c.chunk_index, c.id[2],
      CategoryRank(c.category)>>

RECURSIVE LexLeq(_, _)
LexLeq(a, b) ==
    IF a = <<>> THEN TRUE
    ELSE IF Head(a) # Head(b) THEN Head(a) < Head(b)
    ELSE LexLeq(Tail(a), Tail(b))

RECURSIVE NearestFirst(_, _)
NearestFirst(S, query_embedding) ==
    IF S = {} THEN <<>>
    ELSE LET m == CHOOSE c \in S : \A d \in S :
                      LexLeq(QueryKey(c, query_embedding), QueryKey(d, query_embedding))
         IN <<m>> \o NearestFirst(S \ {m}, query_embedding)

(* rag.py:289-299 the where clause: a condition per filter that is set. *)
where_clause(topic_filter, category) == [category |-> category, topic |-> topic_filter]

Satisfies(c, where) ==
    /\ where.category = NoCategory \/ c.category = where.category
    /\ where.topic = NoTopic \/ c.topic = where.topic

(* rag.py:306 collection.query: the n_results nearest chunks that satisfy   *)
(* the where clause.  The index rejects n_results < 1 and the handler of   *)
(* rag.py:362 turns the exception into an empty answer.                    *)
collection_query(coll, query_embedding, n_results, where) ==
    IF n_results < 1 THEN <<>>
    ELSE LET nearest == NearestFirst({c \in coll : Satisfies(c, where)}, query_embedding)
         IN SubSeq(nearest, 1, Min(n_results, Len(nearest)))

(* The over-fetch that counts a search as filtered when both filters are set. *)
candidates_wanted_both_filters(n_results, topic_filter, category) ==
    IF topic_filter # NoTopic /\ category # NoCategory
    THEN n_results * CANDIDATES_FILTERED
    ELSE n_results * CANDIDATES_UNFILTERED

(* rag.py:283-286 the number of candidates asked of the index. *)
candidates_wanted(n_results, topic_filter, category) ==
    IF topic_filter # NoTopic \/ category # NoCategory
    THEN n_results * CANDIDATES_FILTERED
    ELSE n_results * CANDIDATES_UNFILTERED

(* rag.py:323-334 the post-filter on the category. *)
category_rejects(metadata, category) ==
    /\ category # NoCategory
    /\ \/ metadata.category # NoCategory /\ metadata.category # category
       \/ category = "windchill" /\ UrlHas(metadata.url, "creo")
                                 /\ ~UrlHas(metadata.url, "windchill")
       \/ category = "creo" /\ UrlHas(metadata.url, "windchill")
                            /\ ~UrlHas(metadata.url, "creo")

(* rag.py:336 the post-filter on the topic. *)
topic_rejects(metadata, topic_filter) ==
    topic_filter # NoTopic /\ metadata.topic # NoTopic /\ metadata.topic # topic_filter

(* rag.py:340-343 the count of a URL after this chunk. *)
UrlCount(url_counts, url) == IF url \in DOMAIN url_counts THEN url_counts[url] ELSE 0

(* The diversity check that lets every chunk through. *)
over_url_cap_never(url_counts, url) == FALSE

(* rag.py:342 the diversity check, made after the URL's count was raised. *)
over_url_cap(url_counts, url) == url # NoUrl /\ url_counts[url] > MAX_PER_URL

(* rag.py:345-352 the entry returned for a chunk. *)
doc_entry(metadata) ==
    [content |-> metadata.text,
     url |-> metadata.url,
     title |-> metadata.title,
     section |-> metadata.section,
     topic |-> metadata.topic,
     category |-> metadata.category,
     chunk_type |-> metadata.chunk_type]

(* The stop test that never stops. *)
enough_never(documents, n_results) == FALSE

(* rag.py:361 stop once n_results entries are collected. *)
enough(documents, n_results) == Len(documents) >= n_results

(* rag.py:316-362 the loop over the candidates, from candidate i on. *)
RECURSIVE FilterLoop(_, _, _, _, _, _, _)
FilterLoop(candidates, i, n_results, topic_filter, category, documents, url_counts) ==
    IF i > Len(candidates) THEN documents
    ELSE LET metadata == candidates[i]
             url == metadata.url
             counted == IF url # NoUrl
                        THEN [u \in DOMAIN url_counts \cup {url} |->
                                 IF u = url THEN UrlCount(url_counts, url) + 1
                                 ELSE url_counts[u]]
                        ELSE url_counts
         IN IF category_rejects(metadata, category) \/ topic_rejects(metadata, topic_filter)
            THEN FilterLoop(candidates, i + 1, n_results, topic_filter, category,
                            documents, url_counts)
            ELSE IF over_url_cap(counted, url)
            THEN FilterLoop(candidates, i + 1, n_results, topic_filter, category,
                            documents, counted)
            ELSE LET appended == Append(documents, doc_entry(metadata))
                 IN IF enough(appended, n_results) THEN appended
                    ELSE FilterLoop(candidates, i + 1, n_results, topic_filter, category,
                                    appended, counted)

(* The candidates search_similar_documents gets from the index. *)
search_candidates(coll, query, n_results, topic_filter, category) ==
    collection_query(coll, encode_query(query),
                     candidates_wanted(n_results, topic_filter, category),
                     where_clause(topic_filter, category))

(* The search that drops the category filter. *)
search_similar_documents_any_category(coll, query, n_results, topic_filter, category) ==
    FilterLoop(search_candidates(coll, query, n_results, topic_filter, NoCategory),
               1, n_results, topic_filter, NoCategory, <<>>, <<>>)

(* rag.py:271 search_similar_documents *)
search_similar_documents(coll, query, n_results, topic_filter, category) ==
    FilterLoop(search_candidates(coll, query, n_results, topic_filter, category),
               1, n_results, topic_filter, category, <<>>, <<>>)

(* A search request is served (rag.py:680, 865, 1027 call the retriever):  *)
(* the call, the candidates the index gave and the value are recorded.     *)
Search(query, n_results, topic_filter, category) ==
    /\ returned' = [op |-> "search_similar_documents",
                    query |-> query,
                    n_results |-> n_results,
                    topic_filter |-> topic_filter,
                    category |-> category,
                    requested |-> candidates_wanted(n_results, topic_filter, category),
                    candidates |-> search_candidates(collection, query, n_results,
                                                     topic_filter, category),
                    value |-> search_similar_documents(collection, query, n_results,
                                                       topic_filter, category)]
    /\ UNCHANGED <<scraper_state, tasks, db_pages, db_images, collection, hash_seed, site_version,
                   graph, cancel_requested, last_response, record_responses>>

(* SearchSpec: searches over the index left by crawls that stored any set  *)
(* of documentation pages and forum threads of one site version.           *)
RECURSIVE StoredPages(_, _, _, _)
StoredPages(db, urls, category, version) ==
    IF urls = {} THEN db
    ELSE LET url == CHOOSE u \in urls : \A o \in urls : u <= o
             stored == IF CategoryType(category) = "docs"
                       THEN StorePage(db, page_data_of("ring", url, category, 1, version),
                                      category, 1)
                       ELSE StoreThread(db, post_data_of(url, version), category, 1)
         IN StoredPages(stored, urls \ {url}, category, version)

SearchQueries == 1..NQueries
SearchSizes == 0..MaxK
SearchTopics == {NoTopic, extract_topic(2), post_data_of(ThreadUrl(1), 1).topic}
SearchCategories == DOC_CATEGORIES \cup {NoCategory}

InitSearch ==
    /\ scraper_state = InitialState
    /\ tasks = <<>>
    /\ hash_seed = 1
    /\ graph = "ring"
    /\ cancel_requested = FALSE
    /\ last_response = NoResponse
    /\ record_responses = FALSE
    /\ returned = NoCall
    /\ site_version \in 1..MaxSiteVersion
    /\ \E pages \in SUBSET Docs : \E threads \in SUBSET Threads :
          /\ db_pages = StoredPages(StoredPages({}, pages, "windchill", site_version),
                                    threads, "community-windchill", site_version)
          /\ db_images = UNION {NewImages(r.id, [images |-> SiteImages(r.url, site_version)]) :
                                   r \in {p \in db_pages : p.category = "windchill"}}
          /\ collection =
                add_documents_to_vectorstore(
                    add_documents_to_vectorstore(
                        {}, CategoryDocuments(db_pages, "windchill"), "windchill", hash_seed),
                    CategoryDocuments(db_pages, "community-windchill"),
                    "community-windchill", hash_seed)

NextSearch ==
    \E query \in SearchQueries : \E n_results \in SearchSizes :
        \E topic_filter \in SearchTopics : \E category \in SearchCategories :
            Search(query, n_results, topic_filter, category)

SearchSpec == InitSearch /\ [][NextSearch]_vars

-----------------------------------------------------------------------------
(* Shorthands of the retriever's properties. *)
Searched == returned.op = "search_similar_documents"
Positions(s) == 1..Len(s)
FromUrl(s, url) == {i \in Positions(s) : s[i].url = url}
CandidateEntries == [i \in Positions(returned.candidates) |-> doc_entry(returned.candidates[i])]

RECURSIVE IsSubsequence(_, _)
IsSubsequence(s, t) ==
    IF s = <<>> THEN TRUE
    ELSE IF t = <<>> THEN FALSE
    ELSE IF Head(s) = Head(t) THEN IsSubsequence(Tail(s), Tail(t))
    ELSE IsSubsequence(s, Tail(t))

(* C15: category isolation.  A search with a category filter returns no    *)
(* chunk that was indexed under another category, for every index, query   *)
(* and k; over an index that holds only chunks of another category it      *)
(* returns nothing.                                                        *)
C15_CategoryIsolation ==
    (Searched /\ returned.category # NoCategory) =>
        /\ \A i \in Positions(returned.value) :
              /\ returned.value[i].category = returned.category
              /\ \A c \in collection :
                    doc_entry(c) = returned.value[i] => c.category = returned.category
        /\ (\A c \in collection : c.category # returned.category) => returned.value = <<>>

(* Only windchill pages are indexed and the community category is asked. *)
C15_Witness ==
    /\ Searched
    /\ returned.category = "community-windchill"
    /\ returned.n_results > 0
    /\ Cardinality(collection) > 1
    /\ \A c \in collection : c.category = "windchill"

(* C16: diversity cap.  For every index, query, filters and k the list     *)
(* search returns has at most 2 chunks of any one source URL.              *)
C16_DiversityCap ==
    Searched => \A url \in Docs \cup Threads : Cardinality(FromUrl(returned.value, url)) <= 2

(* The index gave three chunks of one URL before a chunk of another URL:   *)
(* the third was skipped and the other one returned.                       *)
C16_Witness ==
    /\ Searched
    /\ Len(returned.candidates) >= 4
    /\ Cardinality({returned.candidates[i].url : i \in 1..3}) = 1
    /\ returned.candidates[4].url # returned.candidates[1].url
    /\ returned.value = <<CandidateEntries[1], CandidateEntries[2], CandidateEntries[4]>>

(* C17: search returns at most k chunks and never pads: the returned list  *)
(* is a subsequence of the candidates the index gave (their order, nearest *)
(* first, is kept) and each entry passed the category, topic and diversity *)
(* checks.                                                                 *)
C17_NoPadding ==
    Searched =>
        /\ Len(returned.value) <= returned.n_results
        /\ IsSubsequence(returned.value, CandidateEntries)
        /\ \A i \in Positions(returned.value) :
              /\ returned.category # NoCategory
                    => returned.value[i].category = returned.category
              /\ returned.topic_filter # NoTopic
                    => returned.value[i].topic = returned.topic_filter
              /\ Cardinality(FromUrl(returned.value, returned.value[i].url)) <= 2
        /\ \A i, j \in Positions(returned.value) :
              i < j => Distance(encode(returned.value[i].content), encode_query(returned.query))
                          <= Distance(encode(returned.value[j].content),
                                      encode_query(returned.query))

(* Fewer than k chunks are returned although the index gave more           *)
(* candidates: the rest did not pass the checks.                           *)
C17_Witness ==
    /\ Searched
    /\ returned.value # <<>>
    /\ Len(returned.value) < returned.n_results
    /\ Len(returned.candidates) > Len(returned.value)

-----------------------------------------------------------------------------
(* The chunker called on its own: rag.py:29 chunk_text with any text, size  *)
(* and overlap.                                                            *)

(* The windows text[start:end] the loop of chunk_text cuts (rag.py:37-51), *)
(* and whether the loop ended (start reached the end of the text) within   *)
(* MaxChunkSteps iterations.                                               *)
RECURSIVE WindowLoop(_, _, _, _, _, _)
WindowLoop(text, chunk_size, overlap, start, windows, fuel) ==
    IF ~(start < Len(text)) THEN [windows |-> windows, returns |-> TRUE]
    ELSE IF fuel = 0 THEN [windows |-> windows, returns |-> FALSE]
    ELSE LET end0 == start + chunk_size
             search_start == Max(end0 - SENTENCE_LOOKBACK, start)
             last_period == RFindPeriod(text, search_start, end0)
             end == IF end0 < Len(text) /\ last_period > search_start
                    THEN last_period + 1 ELSE end0
         IN WindowLoop(text, chunk_size, overlap, end - overlap,
                       Append(windows, <<start, end>>), fuel - 1)

chunk_windows(text, chunk_size, overlap) ==
    IF Len(text) <= chunk_size
    THEN [windows |-> << <<0, Len(text)>> >>, returns |-> TRUE]
    ELSE WindowLoop(text, chunk_size, overlap, 0, <<>>, MaxChunkSteps)

(* The texts, sizes and overlaps chunk_text is called with: every text of  *)
(* at most MaxTextLen characters over a letter, a period and a space with  *)
(* every small size and overlap, and the texts of the site's pages with    *)
(* the default size and overlap.                                           *)
Characters == {"x", ".", " "}
ShortTexts == UNION {[1..n -> Characters] : n \in 0..MaxTextLen}
ChunkInputs ==
    {[text |-> text, chunk_size |-> chunk_size, overlap |-> overlap] :
        text \in ShortTexts, chunk_size \in 0..MaxChunkSize, overlap \in (-1)..MaxChunkSize}
    \cup {[text |-> TextOf(content), chunk_size |-> CHUNK_SIZE, overlap |-> CHUNK_OVERLAP] :
             content \in Contents}

(* chunk_text is called with the input drawn at the start. *)
ChunkText ==
    /\ returned.op = "input"
    /\ returned' = [op |-> "chunk_text",
                    text |-> returned.text,
                    chunk_size |-> returned.chunk_size,
                    overlap |-> returned.overlap,
                    value |-> chunk_text(returned.text, returned.chunk_size,
                                         returned.overlap),
                    windows |-> chunk_windows(returned.text, returned.chunk_size,
                                              returned.overlap).windows,
                    returns |-> chunk_windows(returned.text, returned.chunk_size,
                                              returned.overlap).returns]
    /\ UNCHANGED <<scraper_state, tasks, db_pages, db_images, collection, hash_seed, site_version,
                   graph, cancel_requested, last_response, record_responses>>

InitChunk ==
    /\ scraper_state = InitialState
    /\ tasks = <<>>
    /\ db_pages = {}
    /\ db_images = {}
    /\ collection = {}
    /\ hash_seed = 1
    /\ site_version = 1
    /\ graph = "ring"
    /\ cancel_requested = FALSE
    /\ last_response = NoResponse
    /\ record_responses = FALSE
    /\ \E input \in ChunkInputs :
          returned = [op |-> "input", text |-> input.text,
                      chunk_size |-> input.chunk_size, overlap |-> input.overlap]

ChunkSpec == InitChunk /\ [][ChunkText]_vars

(* Shorthand: chunk_text has been called. *)
Chunked == returned.op = "chunk_text"

(* C18: chunk(text, size, overlap) returns exactly one chunk, equal to the *)
(* input text, whenever len(text) <= size, the empty text included.        *)
C18_ShortTextOneChunk ==
    (Chunked /\ Len(returned.text) <= returned.chunk_size) =>
        returned.value = <<returned.text>>

(* The empty text, and a short text with a space at its start. *)
C18_Witness ==
    /\ Chunked
    /\ returned.chunk_size >= 2
    /\ returned.text \in {<<>>, <<" ", "x">>}
    /\ returned.value = <<returned.text>>

(* Shorthands of the coverage property: the concatenation of each chunk    *)
(* without its first overlap characters (the first chunk whole), and of    *)
(* the part of each window that lies after the end of the previous one.    *)
RECURSIVE NonOverlapping(_, _, _)
NonOverlapping(chunks, overlap, first) ==
    IF chunks = <<>> THEN <<>>
    ELSE (IF first THEN Head(chunks)
          ELSE SubSeq(Head(chunks), Max(overlap, 0) + 1, Len(Head(chunks))))
         \o NonOverlapping(Tail(chunks), overlap, FALSE)

RECURSIVE WindowParts(_, _, _)
WindowParts(text, windows, covered) ==
    IF windows = <<>> THEN <<>>
    ELSE PySlice(text, covered, Head(windows)[2])
         \o WindowParts(text, Tail(windows), Head(windows)[2])

RECURSIVE TrimmedWindows(_, _)
TrimmedWindows(text, windows) ==
    IF windows = <<>> THEN <<>>
    ELSE LET chunk == Strip(PySlice(text, Head(windows)[1], Head(windows)[2]))
         IN (IF chunk # <<>> THEN <<chunk>> ELSE <<>>)
            \o TrimmedWindows(text, Tail(windows))

(* The overlaps for which a window cut at a sentence boundary still ends   *)
(* after the start of the next window.                                      *)
Advancing(chunk_size, overlap) ==
    0 <= overlap /\ overlap < chunk_size
                 /\ overlap <= Max(chunk_size - SENTENCE_LOOKBACK, 0) + 1

-----------------------------------------------------------------------------
(* The steps in which a fetch of task t failed: a documentation page, a    *)
(* forum thread, or a listing page of the board.                           *)
PageFetchFailed(t) == PageFetched(t, "http_error")
ThreadFetchFailed(t) ==
    /\ tasks'[t].pc = "thread_sleep"
    /\ ThreadSleepEnds(t, "auth") \/ BoardSleepEnds(t, "auth")
BoardFetchFailed(t) ==
    /\ tasks'[t].pc = "board_sleep"
    /\ CommunityStart(t, "http_error") \/ BoardSleepEnds(t, "http_error")

(* The errors list after one entry for url was appended by task t, which   *)
(* empties the list first if this is its first step.                       *)
ErrorAppended(t, outcome, url) ==
    scraper_state'.errors
        = Append(IF tasks[t].pc = "created" THEN <<>> ELSE scraper_state.errors,
                 <<outcome, url>>)

-----------------------------------------------------------------------------
(* C21: a start request that names a category key that is not configured   *)
(* is rejected at once with an error: no field of the status record is     *)
(* modified, no task is created (so no fetch is made), the store and the   *)
(* index are as before, whether or not a crawl is in progress.             *)
C21_UnknownCategoryRejected ==
    [][\A max_pages \in MaxPagesFor("bogus") : StartScraper("bogus", max_pages) =>
          /\ last_response' = Response("error", "unknown_category")
          /\ tasks' = tasks
          /\ scraper_state' = scraper_state
          /\ db_pages' = db_pages
          /\ collection' = collection]_vars

(* The request was rejected while a crawl was in progress. *)
C21_Witness ==
    /\ last_response = Response("error", "unknown_category")
    /\ scraper_state.in_progress
    /\ \E t \in 1..Len(tasks) : Running(tasks[t])


-----------------------------------------------------------------------------
(* The row the change detector compares a fetched page with (the first    *)
(* row of its URL), and the fingerprint of what the site serves now.      *)
HasRow(url) == RowsOf(db_pages, url) # {}
ExistingRow(url) == CHOOSE r \in RowsOf(db_pages, url) : \A o \in RowsOf(db_pages, url) : r.id <= o.id
FetchedHash(url) == content_hash(SiteContent(url, site_version))
SameFingerprint(url) == HasRow(url) /\ ExistingRow(url).content_hash = FetchedHash(url)

(* C22: when a crawl stores a fetched page whose fingerprint equals the    *)
(* stored one, the rows of scraped_pages (every field, scraped_at too)     *)
(* and of scraped_images stay as they are and pages_scraped grows by one.  *)
C22_UnchangedPageNoWrite ==
    [][\A t \in TaskIds :
          StoreStep(t) /\ SameFingerprint(StoredUrl(t)) =>
              /\ db_pages' = db_pages
              /\ db_images' = db_images
              /\ scraper_state'.pages_scraped = scraper_state.pages_scraped + 1]_vars


(* C23: when a docs crawl stores a fetched page whose fingerprint differs  *)
(* from the stored one, the image rows of that page are afterwards exactly *)
(* the images of the new fetch and the image rows of every other page are  *)
(* as they were.                                                           *)
C23_ImagesReplaced ==
    [][\A t \in TaskIds :
          StoreStep(t) /\ IsDocsCrawl(tasks[t]) /\ HasRow(StoredUrl(t))
              /\ ~SameFingerprint(StoredUrl(t)) =>
              LET page_id == ExistingRow(StoredUrl(t)).id
              IN /\ ImagesOf(db_images', page_id)
                       = NewImages(page_id, [images |-> SiteImages(StoredUrl(t), site_version)])
                 /\ db_images' \ ImagesOf(db_images', page_id)
                       = db_images \ ImagesOf(db_images, page_id)]_vars

(* A crawl stored page 1 with its two images while the site was at version *)
(* 1; the page has since been re-fetched changed and owns its one new image. *)
C23_Witness ==
    /\ \E t \in TaskIds :
          /\ IsTask(t) /\ IsDocsCrawl(tasks[t]) /\ tasks[t].pc = "done" /\ tasks[t].h_ok
          /\ tasks[t].h_pages >= 1 /\ tasks[t].h_version = <<1, 1>>
    /\ \E r \in db_pages :
          /\ r.url = 1 /\ r.content = SiteContent(1, 2)
          /\ ImagesOf(db_images, r.id) = NewImages(r.id, [images |-> SiteImages(1, 2)])
          /\ ImagesOf(db_images, r.id) # {}


(* C24: chunk(text, size, overlap) makes forward progress whenever         *)
(* 0 <= overlap < size: the call returns and the start of its window grows *)
(* strictly from each iteration to the next.                               *)
C24_ForwardProgress ==
    Chunked /\ 0 <= returned.overlap /\ returned.overlap < returned.chunk_size =>
        /\ returned.returns
        /\ \A i \in 1..(Len(returned.windows) - 1) :
              returned.windows[i + 1][1] > returned.windows[i][1]


(* The chunks of the index that satisfy the where clause of the latest search. *)
Matching == {c \in collection : Satisfies(c, where_clause(returned.topic_filter, returned.category))}

(* C25: search asks the vector index for 3k candidates when both the topic *)
(* filter and the category filter are set and for 2k candidates otherwise, *)
(* also when exactly one of the two is set; the index answers with that    *)
(* many candidates or with every matching chunk if there are fewer.        *)
C25_OverFetchBothFilters ==
    Searched =>
        LET wanted == IF returned.topic_filter # NoTopic /\ returned.category # NoCategory
                      THEN CANDIDATES_FILTERED * returned.n_results
                      ELSE CANDIDATES_UNFILTERED * returned.n_results
        IN /\ returned.requested = wanted
           /\ Len(returned.candidates) = Min(wanted, Cardinality(Matching))

(* C25 as the code has it: search asks the vector index for 3k candidates  *)
(* when at least one of the two filters is set and for 2k candidates when  *)
(* neither is; the index answers with that many candidates or with every   *)
(* matching chunk if there are fewer.                                      *)
C25_OverFetchAnyFilter ==
    Searched =>
        LET wanted == IF returned.topic_filter # NoTopic \/ returned.category # NoCategory
                      THEN CANDIDATES_FILTERED * returned.n_results
                      ELSE CANDIDATES_UNFILTERED * returned.n_results
        IN /\ returned.requested = wanted
           /\ Len(returned.candidates) = Min(wanted, Cardinality(Matching))

(* A search with the category filter alone got three candidates for k = 1. *)
C25_Witness ==
    /\ Searched
    /\ returned.n_results = 1
    /\ returned.topic_filter = NoTopic
    /\ returned.category # NoCategory
    /\ Len(returned.candidates) = CANDIDATES_FILTERED


-----------------------------------------------------------------------------
(* The post-filter of search_similar_documents over an index that ignores  *)
(* the where clause: the candidates are any chunks, whatever the filters,  *)
(* with the category metadata and the URL of any product.                  *)
MaxCandidates == 2

LooseChunk(url, category) ==
    [text |-> <<url, 0, 40>>, url |-> url, title |-> SiteTitle(url, 1),
     section |-> extract_section(url), topic |-> extract_topic(url),
     category |-> category, chunk_type |-> "text"]

LooseCandidates ==
    {LooseChunk(url, category) :
        url \in {1, 3, ThreadUrl(1), CreoUrl(1), CreoUrl(2)},
        category \in {"windchill", "creo", NoCategory}}

InitFilter ==
    /\ scraper_state = InitialState
    /\ tasks = <<>>
    /\ db_pages = {}
    /\ db_images = {}
    /\ collection = {}
    /\ hash_seed = 1
    /\ site_version = 1
    /\ graph = "ring"
    /\ cancel_requested = FALSE
    /\ last_response = NoResponse
    /\ record_responses = FALSE
    /\ \E n \in 0..MaxCandidates : \E candidates \in [1..n -> LooseCandidates] :
          \E n_results \in 1..MaxK :
             \E category \in {"windchill", "creo", "community-windchill", NoCategory} :
                returned = [op |-> "candidates", candidates |-> candidates,
                            n_results |-> n_results, topic_filter |-> NoTopic,
                            category |-> category]

(* rag.py:312-362 the loop of search_similar_documents runs over the       *)
(* candidates the index returned.                                          *)
PostFilter ==
    /\ returned.op = "candidates"
    /\ returned' = [op |-> "post_filter",
                    candidates |-> returned.candidates,
                    n_results |-> returned.n_results,
                    topic_filter |-> returned.topic_filter,
                    category |-> returned.category,
                    value |-> FilterLoop(returned.candidates, 1, returned.n_results,
                                         returned.topic_filter, returned.category,
                                         <<>>, <<>>)]
    /\ UNCHANGED <<scraper_state, tasks, db_pages, db_images, collection, hash_seed,
                   site_version, graph, cancel_requested, last_response, record_responses>>

FilterSpec == InitFilter /\ [][PostFilter]_vars

PostFiltered == returned.op = "post_filter"
Mentions(url, name) == \E w \in UrlWords(url) : Lower(w) = name

(* C26: the post-filter does not rely on the index's own filter: whatever  *)
(* candidates the index returns, a search with a category filter returns   *)
(* no entry whose category metadata disagrees with the filter, with the    *)
(* filter windchill no entry whose URL has creo and not windchill, and     *)
(* with the filter creo none whose URL has windchill and not creo, in      *)
(* whatever case the URL spells the names.                                 *)
C26_PostFilterIndependent ==
    PostFiltered /\ returned.category # NoCategory =>
        \A i \in Positions(returned.value) :
            LET entry == returned.value[i]
            IN /\ ~(entry.category # NoCategory /\ entry.category # returned.category)
               /\ returned.category = "windchill" =>
                     ~(Mentions(entry.url, "creo") /\ ~Mentions(entry.url, "windchill"))
               /\ returned.category = "creo" =>
                     ~(Mentions(entry.url, "windchill") /\ ~Mentions(entry.url, "creo"))

(* With the filter creo the index returned a chunk of category creo whose  *)
(* URL spells Windchill with a capital and a chunk of the creo pages: the  *)
(* search returned the second only.                                        *)
C26_Witness ==
    /\ PostFiltered
    /\ returned.category = "creo"
    /\ returned.candidates = <<LooseChunk(ThreadUrl(1), "creo"), LooseChunk(CreoUrl(2), "creo")>>
    /\ returned.value = <<doc_entry(LooseChunk(CreoUrl(2), "creo"))>>


-----------------------------------------------------------------------------
(* BfsSpec: one docs crawl of the site with the detour graph, of up to all *)
(* its pages, under either order of the link sets and with fetches that    *)
(* fail.                                                                   *)
InitBfs ==
    /\ scraper_state = InitialState
    /\ tasks = <<>>
    /\ db_pages = {}
    /\ db_images = {}
    /\ collection = {}
    /\ hash_seed \in 1..NSeeds
    /\ site_version = 1
    /\ graph = "detour"
    /\ cancel_requested = FALSE
    /\ last_response = NoResponse
    /\ record_responses = FALSE
    /\ returned = NoCall

BfsNext ==
    \/ /\ tasks = <<>>
       /\ \E max_pages \in 1..Cardinality(DetourDocs) : StartScraper("windchill", max_pages)
    \/ \E t \in 1..Len(tasks) : DocsStep(t)

BfsSpec == InitBfs /\ [][BfsNext]_vars

(* The pages within d links of the root, through the links the crawler     *)
(* follows, and the link distance of a page from the root.                 *)
RECURSIVE Within(_, _)
Within(g, d) ==
    IF d = 0 THEN {1}
    ELSE Within(g, d - 1) \cup UNION {SiteLinks(g, u) : u \in Within(g, d - 1)}
LinkDistance(g, u) == CHOOSE d \in 0..Cardinality(DetourDocs) :
                         u \in Within(g, d) /\ \A e \in 0..(d - 1) : u \notin Within(g, e)

IsPrefix(s, t) == Len(s) <= Len(t) /\ SubSeq(t, 1, Len(s)) = s

(* A docs crawl fetches the root first and takes the URL to fetch next     *)
(* from the front of its queue, to whose end it adds the links it finds.   *)
RootFirst ==
    \A t \in TaskIds : IsTask(t) /\ IsDocsCrawl(tasks[t]) /\ tasks[t].h_order # <<>> =>
        tasks[t].h_order[1] = BaseUrl(tasks[t].category)
FifoStep(t) ==
    IsTask(t) /\ IsDocsCrawl(tasks[t]) =>
        /\ tasks[t].pc = "sleeping" /\ tasks'[t].pc = "fetching" =>
              /\ tasks'[t].url = Head(tasks[t].queue)
              /\ tasks'[t].queue = Tail(tasks[t].queue)
              /\ tasks'[t].h_order = Append(tasks[t].h_order, tasks'[t].url)
        /\ tasks[t].pc = "fetching" /\ tasks'[t].pc = "sleeping" =>
              IsPrefix(tasks[t].queue, tasks'[t].queue)
NearerFirst(t) ==
    \A i, j \in 1..Len(tasks[t].h_order) :
        i < j => LinkDistance(graph, tasks[t].h_order[i]) <= LinkDistance(graph, tasks[t].h_order[j])

(* C27: a docs crawl is breadth-first: it fetches the root first and the   *)
(* URLs in the order of their discovery, first in first out, so that no    *)
(* page is fetched before a page nearer to the root that the crawl fetches *)
(* too.                                                                    *)
C27_BreadthFirst ==
    /\ [](RootFirst /\ \A t \in TaskIds : IsTask(t) /\ IsDocsCrawl(tasks[t]) => NearerFirst(t))
    /\ [][\A t \in TaskIds : FifoStep(t)]_vars

(* C27 as the code has it: a docs crawl fetches the root first and the     *)
(* URLs in the order of their discovery, first in first out; as long as    *)
(* no fetch of the crawl has failed, no page is fetched before a page      *)
(* nearer to the root that the crawl fetches too.                          *)
C27_FirstInFirstOut ==
    /\ [](RootFirst /\ \A t \in TaskIds :
             IsTask(t) /\ IsDocsCrawl(tasks[t]) /\ ~tasks[t].h_failed => NearerFirst(t))
    /\ [][\A t \in TaskIds : FifoStep(t)]_vars

(* A crawl without a failed fetch has fetched the six pages: the root, the  *)
(* two pages it links in the order of the link set, then the pages at two  *)
(* links and the page at three.                                            *)
C27_Witness ==
    \E t \in TaskIds :
        /\ IsTask(t) /\ IsDocsCrawl(tasks[t]) /\ ~tasks[t].h_failed
        /\ tasks[t].pc = "done"
        /\ tasks[t].h_order = <<1, 3, 2, 4, 5, 6>>


-----------------------------------------------------------------------------
(* The URLs a docs crawl has enqueued so far: those in its queue and those *)
(* it took from the queue to fetch.                                        *)
EnqueuedUrls(task) == Range(task.queue) \cup task.visited \cup Range(task.h_order)

(* C28: every URL a docs crawl enqueues or fetches starts with the root    *)
(* URL of its category, and no link it enqueues has a fragment marker or   *)
(* one of the extensions .pdf, .zip, .png, .jpg, .gif, in lower or in      *)
(* upper case.                                                             *)
C28_OnlyCategoryPages ==
    \A t \in TaskIds : IsTask(t) /\ IsDocsCrawl(tasks[t]) =>
        /\ \A url \in EnqueuedUrls(tasks[t]) \cup ({tasks[t].url} \ {NoUrl}) :
              StartsWithBase(url, tasks[t].category)
        /\ \A url \in EnqueuedUrls(tasks[t]) \ {BaseUrl(tasks[t].category)} :
              /\ UrlParts(url) \cap EXCLUDED_PARTS = {}
              /\ {Lower(part) : part \in UrlParts(url)} \cap EXCLUDED_PARTS = {}

(* A docs crawl has fetched the root, whose links to a .pdf, an anchor, an *)
(* image and a page outside the category it dropped, and has enqueued a    *)
(* page of the category.                                                   *)
C28_Witness ==
    \E t \in TaskIds :
        /\ IsTask(t) /\ IsDocsCrawl(tasks[t])
        /\ tasks[t].pc = "sleeping"
        /\ tasks[t].url = BaseUrl(tasks[t].category)
        /\ tasks[t].h_pages = 1
        /\ {PdfUrl, AnchorUrl, ImageUrl, ForeignUrl} \subseteq Hrefs(graph, tasks[t].url)
        /\ tasks[t].queue # <<>>


-----------------------------------------------------------------------------
(* CommunitySpec: one community crawl of the busy board, asked for with a  *)
(* max_threads below, at and above the threads of a listing page, with     *)
(* listing pages and threads that fail.                                    *)
CommunitySizes ==
    {-1, 0, THREADS_PER_BOARD - 1, THREADS_PER_BOARD, 2 * THREADS_PER_BOARD}

InitCommunity ==
    /\ scraper_state = InitialState
    /\ tasks = <<>>
    /\ db_pages = {}
    /\ db_images = {}
    /\ collection = {}
    /\ hash_seed = 1
    /\ site_version = 1
    /\ graph = "busy"
    /\ cancel_requested = FALSE
    /\ last_response = NoResponse
    /\ record_responses = FALSE
    /\ returned = NoCall

CommunityNext ==
    \/ /\ tasks = <<>>
       /\ \E max_threads \in CommunitySizes : StartScraper("community-windchill", max_threads)
    \/ \E t \in 1..Len(tasks) : \E outcome \in FetchOutcomes : CommunityStart(t, outcome)
    \/ \E t \in 1..Len(tasks) : \E outcome \in FetchOutcomes \cup ThreadOutcomes :
          BoardSleepEnds(t, outcome)
    \/ \E t \in 1..Len(tasks) : \E outcome \in ThreadOutcomes : ThreadSleepEnds(t, outcome)

CommunitySpec == InitCommunity /\ [][CommunityNext]_vars

(* The fetches of a community crawl: of listing pages and of threads. *)
IsBoardUrl(url) == \E n \in 1..MAX_BOARD_PAGES : url = BoardUrl(n)
BoardFetches(task) == {i \in 1..Len(task.h_order) : IsBoardUrl(task.h_order[i])}
ThreadFetches(task) == {i \in 1..Len(task.h_order) : ~IsBoardUrl(task.h_order[i])}

TwoPhases(task) ==
    /\ \A i \in BoardFetches(task) : \A j \in ThreadFetches(task) : i < j
    /\ \A i, j \in ThreadFetches(task) : task.h_order[i] = task.h_order[j] => i = j
    /\ \A j \in ThreadFetches(task) : task.h_order[j] \in Range(task.queue)

(* A listing page is fetched only while fewer than max_threads thread URLs *)
(* are queued.                                                             *)
HarvestStopsEarly(t) ==
    /\ IsTask(t) /\ IsCommunityCrawl(tasks[t])
    /\ BoardFetches(tasks'[t]) # BoardFetches(tasks[t])
    => Len(tasks[t].queue) < tasks[t].max_pages

(* C29: a community crawl has two phases: every fetch of a listing page    *)
(* comes before every fetch of a thread; at most min(20, max_threads // 5) *)
(* listing pages are fetched, and none once max_threads thread URLs are    *)
(* queued; at most max_threads threads are fetched, each of them a         *)
(* harvested URL and none twice.                                           *)
C29_TwoPhaseBounds ==
    /\ [](\A t \in TaskIds : IsTask(t) /\ IsCommunityCrawl(tasks[t]) =>
             /\ TwoPhases(tasks[t])
             /\ Cardinality(BoardFetches(tasks[t]))
                   <= Min(MAX_BOARD_PAGES, tasks[t].max_pages \div THREADS_PER_BOARD)
             /\ Cardinality(ThreadFetches(tasks[t])) <= tasks[t].max_pages)
    /\ [][\A t \in TaskIds : HarvestStopsEarly(t)]_vars

(* C29 as the code has it: the same, the two bounds being 0 when           *)
(* max_threads is negative.                                                *)
C29_TwoPhaseBoundsFromZero ==
    /\ [](\A t \in TaskIds : IsTask(t) /\ IsCommunityCrawl(tasks[t]) =>
             /\ TwoPhases(tasks[t])
             /\ Cardinality(BoardFetches(tasks[t]))
                   <= Max(0, Min(MAX_BOARD_PAGES, tasks[t].max_pages \div THREADS_PER_BOARD))
             /\ Cardinality(ThreadFetches(tasks[t])) <= Max(0, tasks[t].max_pages))
    /\ [][\A t \in TaskIds : HarvestStopsEarly(t)]_vars

(* A crawl asked for two listing pages' worth of threads fetched the first *)
(* listing page, which queued more thread URLs than that, did not fetch    *)
(* the second, and fetched max_threads threads of those queued.            *)
C29_Witness ==
    \E t \in TaskIds :
        /\ IsTask(t) /\ IsCommunityCrawl(tasks[t])
        /\ tasks[t].pc = "done"
        /\ tasks[t].max_pages = 2 * THREADS_PER_BOARD
        /\ Cardinality(BoardFetches(tasks[t])) = 1
        /\ Len(tasks[t].queue) > tasks[t].max_pages
        /\ Cardinality(ThreadFetches(tasks[t])) = tasks[t].max_pages


-----------------------------------------------------------------------------
(* The steps in which the server answered a thread fetch of task t with    *)
(* status 302, with and without a Location to follow.                      *)
Answered302(t) ==
    /\ tasks'[t].pc = "thread_sleep"
    /\ \E outcome \in {"auth", "redirect"} :
          ThreadSleepEnds(t, outcome) \/ BoardSleepEnds(t, outcome)

(* C30: in a community crawl a thread fetch answered with status 302 is    *)
(* taken as authentication required: no row is written for the thread,    *)
(* one entry is appended to errors, pages_scraped stays as it is, the      *)
(* thread is marked scraped so that it is not fetched again, and the crawl *)
(* goes on to its sleep and the next thread.                               *)
C30_AuthRequiredSkipsThread ==
    [][\A t \in TaskIds : IsTask(t) /\ IsCommunityCrawl(tasks[t]) /\ Answered302(t) =>
          /\ db_pages' = db_pages
          /\ db_images' = db_images
          /\ Len(scraper_state'.errors) = Len(scraper_state.errors) + 1
          /\ SubSeq(scraper_state'.errors, 1, Len(scraper_state.errors)) = scraper_state.errors
          /\ scraper_state'.pages_scraped = scraper_state.pages_scraped
          /\ tasks'[t].url \in tasks'[t].visited
          /\ tasks'[t].url \notin tasks[t].visited
          /\ tasks'[t].threads_scraped = tasks[t].threads_scraped]_vars


-----------------------------------------------------------------------------
(* The fetches task t makes in a step, and the positions from which a step *)
(* goes on to a fetch: the start of the crawl and the end of a sleep.      *)
FetchesInStep(t) == Len(tasks'[t].h_order) - Len(tasks[t].h_order)
AfterDelay(task) == task.pc \in {"created", "sleeping", "board_sleep", "thread_sleep"}

(* C31: within one crawl, docs or community, a delay lies between any two  *)
(* consecutive fetches: a step makes at most one fetch, and it makes one   *)
(* only at the start of the crawl or when a sleep has ended, also from the *)
(* last listing page to the first thread.                                  *)
C31_DelayBetweenFetches ==
    [][\A t \in TaskIds : IsTask(t) /\ tasks[t].kind = "scrape" =>
          /\ FetchesInStep(t) <= 1
          /\ FetchesInStep(t) = 1 =>
                /\ AfterDelay(tasks[t])
                /\ tasks[t].pc = "created" <=> tasks[t].h_order = <<>>]_vars

(* A community crawl has fetched a listing page, slept, and fetched a      *)
(* thread; a docs crawl has fetched two pages.                             *)
C31_Witness ==
    /\ \E t \in TaskIds : /\ IsTask(t) /\ IsCommunityCrawl(tasks[t])
                          /\ BoardFetches(tasks[t]) # {} /\ ThreadFetches(tasks[t]) # {}
    /\ \E t \in TaskIds : IsTask(t) /\ IsDocsCrawl(tasks[t]) /\ Len(tasks[t].h_order) >= 2


-----------------------------------------------------------------------------
(* The indexer with image chunks and batches (rag.py:138-234), and the end *)
(* of a crawl with an indexing that can fail (scraper.py:754-800).         *)

BATCH_SIZE == 100
MaxBatchSize == 2
MaxImages == 2
MaxIndexedDocs == 2

(* The index of an image chunk id, in the place of the text 'img'.         *)
ImgMark == -1
ImageFields == {"alt_text", "caption", "context_before", "context_after"}
EmptyTitle == 0

(* rag.py:120-135 the parts of the searchable text of an image entry; the  *)
(* text is empty when there is no part.  A field is "" or a word.          *)
build_image_searchable_text(img) ==
    (IF img.alt_text # "" THEN <<<<"Image", img.alt_text>>>> ELSE <<>>)
    \o (IF img.caption # "" THEN <<<<"Caption", img.caption>>>> ELSE <<>>)
    \o (IF img.context_before # "" THEN <<<<"Context", img.context_before>>>> ELSE <<>>)
    \o (IF img.context_after # "" THEN <<<<"", img.context_after>>>> ELSE <<>>)
    \o (IF img.page_title # EmptyTitle THEN <<<<"From", img.page_title>>>> ELSE <<>>)

(* scraper.py:759-770 the documents of a category in the order of the rows.*)
document_list(db, category) ==
    LET rows == {r \in db : r.category = category /\ r.content # EmptyContent}
        ids == AscSeq({r.id : r \in rows})
    IN [k \in 1..Len(ids) |->
           LET r == CHOOSE x \in rows : x.id = ids[k]
           IN [url |-> r.url, title |-> r.title, content |-> r.content,
               section |-> r.section, topic |-> r.topic]]

(* scraper.py:773-790 the image entries of a category: the image rows      *)
(* joined with their pages.                                                *)
image_docs(db, images, category) ==
    LET joined == {i \in images : \E p \in db : p.id = i.page_id /\ p.category = category}
        ids == AscSeq({i.id : i \in joined})
    IN [k \in 1..Len(ids) |->
           LET img == CHOOSE i \in joined : i.id = ids[k]
               page == CHOOSE p \in db : p.id = img.page_id
           IN [url |-> img.url, page_url |-> page.url, page_title |-> page.title,
               alt_text |-> img.alt_text, caption |-> img.caption,
               context_before |-> img.context_before, context_after |-> img.context_after,
               section |-> page.section, topic |-> page.topic, category |-> category]]

(* rag.py:145-168 the text chunks of the documents, in order.              *)
RECURSIVE text_chunk_list(_, _, _)
text_chunk_list(documents, category, seed) ==
    IF documents = <<>> THEN <<>>
    ELSE LET chunks == DocChunks(Head(documents), category, seed)
         IN [i \in 1..Cardinality(chunks) |-> CHOOSE c \in chunks : c.chunk_index = i - 1]
            \o text_chunk_list(Tail(documents), category, seed)

(* The image chunks with an entry for every image entry that has a text.   *)
RECURSIVE image_chunk_list_keeps_repeats(_, _, _, _)
image_chunk_list_keeps_repeats(images, category, seed, seen_image_ids) ==
    IF images = <<>> THEN <<>>
    ELSE LET img == Head(images)
             img_id == <<category, PyHash(seed, img.url), ImgMark>>
         IN IF build_image_searchable_text(img) = <<>>
            THEN image_chunk_list_keeps_repeats(Tail(images), category, seed, seen_image_ids)
            ELSE <<[id |-> img_id, text |-> build_image_searchable_text(img),
                    url |-> img.page_url, title |-> img.page_title,
                    section |-> img.section, topic |-> img.topic,
                    category |-> category, chunk_type |-> "image",
                    image_url |-> img.url, image_alt |-> img.alt_text,
                    image_caption |-> img.caption]>>
                 \o image_chunk_list_keeps_repeats(Tail(images), category, seed,
                                                    seen_image_ids \cup {img_id})

(* rag.py:170-202 the image chunks: an entry without searchable text is    *)
(* passed over, and so is an entry whose id was seen in this call.         *)
RECURSIVE image_chunk_list(_, _, _, _)
image_chunk_list(images, category, seed, seen_image_ids) ==
    IF images = <<>> THEN <<>>
    ELSE LET img == Head(images)
             img_id == <<category, PyHash(seed, img.url), ImgMark>>
         IN IF build_image_searchable_text(img) = <<>> \/ img_id \in seen_image_ids
            THEN image_chunk_list(Tail(images), category, seed, seen_image_ids)
            ELSE <<[id |-> img_id, text |-> build_image_searchable_text(img),
                    url |-> img.page_url, title |-> img.page_title,
                    section |-> img.section, topic |-> img.topic,
                    category |-> category, chunk_type |-> "image",
                    image_url |-> img.url, image_alt |-> img.alt_text,
                    image_caption |-> img.caption]>>
                 \o image_chunk_list(Tail(images), category, seed,
                                     seen_image_ids \cup {img_id})

(* The batch loop that a failing batch ends. *)
RECURSIVE upsert_batches_stops_at_failure(_, _, _, _, _)
upsert_batches_stops_at_failure(coll, chunks, batch_size, failing, n) ==
    IF chunks = <<>> \/ n \in failing
    THEN [coll |-> coll, added |-> 0,
          batches |-> IF chunks = <<>> THEN <<>>
                      ELSE <<[chunks |-> SubSeq(chunks, 1, Min(batch_size, Len(chunks))),
                              ok |-> FALSE]>>]
    ELSE LET size == Min(batch_size, Len(chunks))
             batch == SubSeq(chunks, 1, size)
             r == upsert_batches_stops_at_failure(Upsert(coll, Range(batch)),
                                                  SubSeq(chunks, size + 1, Len(chunks)),
                                                  batch_size, failing, n + 1)
         IN [coll |-> r.coll, added |-> r.added + size,
             batches |-> <<[chunks |-> batch, ok |-> TRUE]>> \o r.batches]

(* rag.py:205-234 the batch loop from batch number n on: batch_size chunks *)
(* at a time; a batch whose encode or upsert raises (its number is in      *)
(* failing) is passed over.  batches is the history of the loop.           *)
RECURSIVE upsert_batches(_, _, _, _, _)
upsert_batches(coll, chunks, batch_size, failing, n) ==
    IF chunks = <<>> THEN [coll |-> coll, added |-> 0, batches |-> <<>>]
    ELSE LET size == Min(batch_size, Len(chunks))
             batch == SubSeq(chunks, 1, size)
             ok == n \notin failing
             r == upsert_batches(IF ok THEN Upsert(coll, Range(batch)) ELSE coll,
                                 SubSeq(chunks, size + 1, Len(chunks)),
                                 batch_size, failing, n + 1)
         IN [coll |-> r.coll, added |-> r.added + (IF ok THEN size ELSE 0),
             batches |-> <<[chunks |-> batch, ok |-> ok]>> \o r.batches]

(* rag.py:138-234 the whole call: text chunks, then image chunks, then the *)
(* batches.  The code's batch_size is BATCH_SIZE; the smaller sizes make   *)
(* several batches of the few chunks of the modelled site.                 *)
index_documents(coll, documents, images, category, seed, batch_size, failing) ==
    LET all_chunks == text_chunk_list(documents, category, seed)
                      \o image_chunk_list(images, category, seed, {})
        r == upsert_batches(coll, all_chunks, batch_size, failing, 1)
    IN [coll |-> r.coll, added |-> r.added, batches |-> r.batches,
        all_chunks |-> all_chunks, images |-> images]

(* scraper.py:754-800 the end of a crawl: the indexing in its try, the     *)
(* except that lists whatever it raised, and the completion.               *)
finish_indexing(task, st, db, images, coll, seed, batch_size, failing, raises) ==
    LET r == IF raises
             THEN [coll |-> coll, added |-> 0, batches |-> <<>>, all_chunks |-> <<>>,
                   images |-> <<>>]
             ELSE index_documents(coll, document_list(db, task.category),
                                  image_docs(db, images, task.category),
                                  task.category, seed, batch_size, failing)
    IN [task |-> [task EXCEPT !.pc = "done", !.url = NoUrl,
                              !.h_end_rows = {<<p.url, p.content_hash>> : p \in db},
                              !.h_end_ids = {c.id : c \in r.coll}],
        st |-> [st EXCEPT !.errors = IF raises THEN Append(st.errors, <<"sync_error", NoUrl>>)
                                     ELSE st.errors,
                          !.progress = 100, !.status_text = "Complete",
                          !.in_progress = FALSE],
        coll |-> r.coll,
        call |-> r]

(* The inputs of the indexing: the image rows of page 1, each with no      *)
(* text field, one or all four; the batch size; the batches that raise.    *)
FieldSets == {{}} \cup {{f} : f \in ImageFields} \cup {ImageFields}
ImageRow(id, url, fields) ==
    [id |-> id, page_id |-> 1, url |-> url,
     alt_text |-> IF "alt_text" \in fields THEN "alt" ELSE "",
     caption |-> IF "caption" \in fields THEN "cap" ELSE "",
     context_before |-> IF "context_before" \in fields THEN "before" ELSE "",
     context_after |-> IF "context_after" \in fields THEN "after" ELSE ""]
ImageRowSets ==
    UNION {{{ImageRow(k, url[k], fields[k]) : k \in 1..n} :
                url \in [1..n -> SiteImages(1, 1)], fields \in [1..n -> FieldSets]} :
              n \in 0..MaxImages}
Untitled(db) == {[r EXCEPT !.title = EmptyTitle] : r \in db}

InitIndex ==
    /\ scraper_state = StartedState(InitialState, "windchill")
    /\ tasks = <<[NewTask("scrape", "windchill", MaxIndexedDocs) EXCEPT !.pc = "sleeping"]>>
    /\ \E n \in 1..MaxIndexedDocs : \E titled \in BOOLEAN :
          db_pages = IF titled THEN StoredPages({}, 1..n, "windchill", 1)
                     ELSE Untitled(StoredPages({}, 1..n, "windchill", 1))
    /\ db_images \in ImageRowSets
    /\ collection = {}
    /\ hash_seed = 1
    /\ site_version = 1
    /\ graph = "ring"
    /\ cancel_requested = FALSE
    /\ last_response = NoResponse
    /\ record_responses = FALSE
    /\ \E batch_size \in (1..MaxBatchSize) \cup {BATCH_SIZE} :
          \E failing \in SUBSET (1..(MaxIndexedDocs + MaxImages)) : \E raises \in BOOLEAN :
             /\ raises => failing = {}
             /\ returned = [op |-> "pending", batch_size |-> batch_size,
                            failing |-> failing, raises |-> raises]

(* The crawl leaves its loop and indexes (scraper.py:736-800).             *)
CrawlEnds ==
    /\ returned.op = "pending"
    /\ \E r \in {finish_indexing(tasks[1], scraper_state, db_pages, db_images, collection,
                                    hash_seed, returned.batch_size, returned.failing,
                                    returned.raises)} :
          /\ tasks' = <<r.task>>
          /\ scraper_state' = r.st
          /\ collection' = r.coll
          /\ returned' = [op |-> "indexed", batch_size |-> returned.batch_size,
                          failing |-> returned.failing, raises |-> returned.raises,
                          added |-> r.call.added, batches |-> r.call.batches,
                          all_chunks |-> r.call.all_chunks, images |-> r.call.images]
    /\ UNCHANGED <<db_pages, db_images, hash_seed, site_version, graph, cancel_requested,
                   last_response, record_responses>>

IndexSpec == InitIndex /\ [][CrawlEnds]_vars

Indexed == returned.op = "indexed"
RECURSIVE Concat(_)
Concat(batches) ==
    IF batches = <<>> THEN <<>> ELSE Head(batches).chunks \o Concat(Tail(batches))
RECURSIVE UpsertedSize(_)
UpsertedSize(batches) ==
    IF batches = <<>> THEN 0
    ELSE (IF Head(batches).ok THEN Len(Head(batches).chunks) ELSE 0) + UpsertedSize(Tail(batches))

(* C32: the chunks are upserted in batches of at most batch_size; a batch  *)
(* that raises is passed over, the chunks of every other batch, before and *)
(* after it, are in the index; the returned count is the total size of the *)
(* upserted batches; and the crawl ends with in_progress false, also when   *)
(* the indexing as a whole raised.                                         *)
C32_BatchRecovery ==
    Indexed =>
        /\ Concat(returned.batches) = returned.all_chunks
        /\ \A k \in 1..Len(returned.batches) :
              LET batch == returned.batches[k]
              IN /\ Len(batch.chunks) <= returned.batch_size
                 /\ k < Len(returned.batches) => Len(batch.chunks) = returned.batch_size
                 /\ batch.ok <=> k \notin returned.failing
                 /\ batch.ok => Range(batch.chunks) \subseteq collection
                 /\ ~batch.ok => Range(batch.chunks) \cap collection = {}
        /\ returned.added = UpsertedSize(returned.batches)
        /\ returned.added = Cardinality(collection)
        /\ scraper_state.in_progress = FALSE
        /\ tasks[1].pc = "done"
        /\ returned.raises => collection = {} /\ Len(scraper_state.errors) = 1

(* A middle batch of three raised: the first and the third are in the index.*)
C32_Witness ==
    /\ Indexed
    /\ Len(returned.batches) = 3
    /\ returned.batches[1].ok /\ ~returned.batches[2].ok /\ returned.batches[3].ok
    /\ returned.added = 2 * returned.batch_size
    /\ scraper_state.in_progress = FALSE

HasText(img) == \E f \in ImageFields : img[f] # ""
ImageChunksOf(chunks, url) ==
    {k \in 1..Len(chunks) : chunks[k].chunk_type = "image" /\ chunks[k].image_url = url}

(* C33: in one indexing call every image entry with a non-empty alt text,  *)
(* caption, context before or context after has exactly one chunk of type  *)
(* image, also when several entries have its image URL.                    *)
C33_OneChunkPerImage ==
    Indexed /\ ~returned.raises =>
        \A k \in 1..Len(returned.images) :
            HasText(returned.images[k]) =>
                /\ Cardinality(ImageChunksOf(returned.all_chunks, returned.images[k].url)) = 1
                /\ returned.failing = {} =>
                      Cardinality({c \in collection : c.chunk_type = "image"
                                      /\ c.image_url = returned.images[k].url}) = 1

(* Two entries with texts and the same image URL gave one image chunk.     *)
C33_Witness ==
    /\ Indexed /\ ~returned.raises /\ returned.failing = {}
    /\ Len(returned.images) = 2
    /\ returned.images[1].url = returned.images[2].url
    /\ HasText(returned.images[1]) /\ HasText(returned.images[2])
    /\ Cardinality({c \in collection : c.chunk_type = "image"}) = 1


-----------------------------------------------------------------------------
(* The crawl has started and its first fetch has not returned: a docs      *)
(* crawl waits at scraper.py:666 for its first page.  (A community crawl   *)
(* makes its first fetch before its first await: no snapshot lies between.)*)
FirstFetchPending(task) ==
    task.kind = "scrape" /\ task.pc = "fetching" /\ Len(task.h_order) = 1
FreshSnapshot(st, task) ==
    /\ st.in_progress /\ st.progress = 0 /\ st.pages_scraped = 0 /\ st.errors = <<>>
    /\ st.status_text = "Scraping"
    /\ st.current_url = task.url
    /\ st.total_pages_estimate = task.max_pages
    /\ st.category = task.category
Completes(t) == IsTask(t) /\ tasks[t].kind = "scrape" /\ Active(tasks[t]) /\ tasks'[t].pc = "done"

(* C34: the status record is reset at the start of every crawl: before the *)
(* first fetch of a crawl has returned, a snapshot shows in_progress true, *)
(* progress 0, pages_scraped 0, no errors, and the status text, current    *)
(* URL, estimate and category of this crawl; and when a crawl completes,   *)
(* in_progress is false.                                                   *)
C34_ResetAtStart ==
    /\ [](\A t \in TaskIds : IsTask(t) /\ FirstFetchPending(tasks[t]) =>
              FreshSnapshot(scraper_state, tasks[t]))
    /\ [][\A t \in TaskIds : Completes(t) => ~scraper_state'.in_progress]_vars


-----------------------------------------------------------------------------
(* A docs crawl whose relational store can raise.  run_scrape has no       *)
(* except around its loop (scraper.py:655-737, try ... finally) and none   *)
(* around its statistics update (scraper.py:739-752): whatever a query or  *)
(* a commit raises ends the task.                                          *)

(* scraper.py:668-721 the page was fetched; the query, the flush or the    *)
(* commit of its store raises.  The finally closes the HTTP session and    *)
(* the exception leaves run_scrape: nothing after line 721 runs.           *)
store_raises(task, st, db, coll) ==
    [task |-> [task EXCEPT !.pc = "raised", !.h_pages = task.h_pages + 1],
     st |-> st, db |-> db, coll |-> coll]

PageStoreRaises(t) ==
    /\ tasks[t].pc = "fetching"
    /\ \E r \in {store_raises(tasks[t], scraper_state, db_pages, collection)} : Apply(t, r)

(* scraper.py:739-752 the loop has ended; the count, the query or the      *)
(* commit of the statistics update raises: lines 754-800 do not run.       *)
stats_raises(task, st, db, coll) ==
    [task |-> [task EXCEPT !.pc = "raised", !.url = NoUrl],
     st |-> st, db |-> db, coll |-> coll]

StatsRaises(t) ==
    /\ tasks[t].pc = "sleeping"
    /\ ~WhileHead(tasks[t].queue, tasks[t].visited, tasks[t].max_pages).run
    /\ \E r \in {stats_raises(tasks[t], scraper_state, db_pages, collection)} : Apply(t, r)

FaultStep(t) ==
    /\ t <= Len(tasks)
    /\ \/ DocsStep(t)
       \/ PageStoreRaises(t)
       \/ StatsRaises(t)

FaultNext ==
    \/ \E max_pages \in MaxPagesFor("windchill") : StartScraper("windchill", max_pages)
    \/ \E t \in 1..Len(tasks) : RunScrapeStart(t)
    \/ \E t \in 1..Len(tasks) : \E outcome \in FetchOutcomes : PageFetched(t, outcome)
    \/ \E t \in 1..Len(tasks) : PageSleepEnds(t)
    \/ \E t \in 1..Len(tasks) : PageStoreRaises(t)
    \/ \E t \in 1..Len(tasks) : StatsRaises(t)

FaultSpec == Init /\ [][FaultNext]_vars /\ \A t \in 1..MaxTasks : WF_vars(FaultStep(t))

(* C35: every crawl that has set in_progress to true sets it back to       *)
(* false in the end (it reaches its completion), also when a query or a    *)
(* commit of the relational store raises.                                  *)
C35_EventuallyIdle ==
    \A t \in 1..MaxTasks :
        (IsTask(t) /\ Running(tasks[t])) ~> (IsTask(t) /\ tasks[t].pc = "done")


-----------------------------------------------------------------------------
(* The windows of the chunks: those whose slice, trimmed, is not empty     *)
(* (rag.py:47-49).                                                         *)
RECURSIVE ProducedWindows(_, _)
ProducedWindows(text, windows) ==
    IF windows = <<>> THEN <<>>
    ELSE (IF Strip(PySlice(text, Head(windows)[1], Head(windows)[2])) # <<>>
          THEN <<Head(windows)>> ELSE <<>>)
         \o ProducedWindows(text, Tail(windows))
(* The end of the slice text[start:end]: a slice ends with the text.       *)
SliceEnd(text, window) == Min(window[2], Len(text))

(* C36: for 0 <= overlap < size every chunk after the first reaches beyond *)
(* the end of the window of the chunk before it: no chunk is made only of  *)
(* text that its predecessor contains.                                     *)
C36_ChunkExtends ==
    (Chunked /\ 0 <= returned.overlap /\ returned.overlap < returned.chunk_size) =>
        LET produced == ProducedWindows(returned.text, returned.windows)
        IN \A i \in 1..(Len(produced) - 1) :
              SliceEnd(returned.text, produced[i + 1]) > SliceEnd(returned.text, produced[i])


-----------------------------------------------------------------------------
(* The rebuild script (sync_vectorstore.py), run as a process of its own   *)
(* on the same relational store and vector index.                          *)

(* rag.py:138 the default of the category parameter.                       *)
DEFAULT_CATEGORY == "windchill"

(* sync_vectorstore.py:14-49 every page with content, of whatever          *)
(* category, is handed to add_documents_to_vectorstore without a category. *)
sync_to_vectorstore(db, coll, seed) ==
    LET pages == {r \in db : r.content # EmptyContent}
        documents == {[url |-> r.url, title |-> r.title, content |-> r.content,
                       section |-> r.section, topic |-> r.topic] : r \in pages}
    IN IF pages = {} THEN coll
       ELSE add_documents_to_vectorstore(coll, documents, DEFAULT_CATEGORY, seed)

(* The script runs; its process has a hash seed of its own.                *)
SyncToVectorstore ==
    /\ \E seed \in 1..NSeeds : collection' = sync_to_vectorstore(db_pages, collection, seed)
    /\ UNCHANGED <<scraper_state, tasks, db_pages, db_images, hash_seed, site_version, graph,
                   cancel_requested, last_response, record_responses, returned>>

(* Crawls one after the other, and the script at any time.                 *)
SyncNext ==
    \/ /\ \A i \in 1..Len(tasks) : ~Active(tasks[i])
       /\ \E category \in DOC_CATEGORIES : \E max_pages \in MaxPagesFor(category) :
             StartScraper(category, max_pages)
    \/ \E t \in 1..Len(tasks) : RunScrapeStart(t)
    \/ \E t \in 1..Len(tasks) : \E outcome \in FetchOutcomes : PageFetched(t, outcome)
    \/ \E t \in 1..Len(tasks) : PageSleepEnds(t)
    \/ \E t \in 1..Len(tasks) : \E outcome \in FetchOutcomes : CommunityStart(t, outcome)
    \/ \E t \in 1..Len(tasks) : \E outcome \in FetchOutcomes \cup ThreadOutcomes :
          BoardSleepEnds(t, outcome)
    \/ \E t \in 1..Len(tasks) : \E outcome \in ThreadOutcomes : ThreadSleepEnds(t, outcome)
    \/ SyncToVectorstore

SyncSpec == Init /\ [][SyncNext]_vars

(* C37: after any crawls and rebuilds, every text chunk of the index has   *)
(* the category of the page row that has the chunk's URL.                  *)
C37_ChunkCategoryIsPageCategory ==
    \A c \in collection : c.chunk_type = "text" =>
        \A r \in db_pages : r.url = c.url => c.category = r.category


-----------------------------------------------------------------------------
(* A crawl is in progress from its first statement to its completion.      *)
CrawlInProgress(t) == IsTask(t) /\ tasks[t].kind = "scrape" /\ Running(tasks[t])

(* C38: while a crawl is in progress the reported progress is at most 99   *)
(* and no step lowers it; progress 100 is seen only with in_progress false. *)
C38_ProgressMonotoneCapped ==
    /\ [](\A t \in TaskIds : CrawlInProgress(t) => scraper_state.progress <= PROGRESS_CAP)
    /\ [](scraper_state.progress = 100 => ~scraper_state.in_progress)
    /\ [][\A t \in TaskIds : CrawlInProgress(t) /\ CrawlInProgress(t)' =>
              scraper_state'.progress >= scraper_state.progress]_vars

=============================================================================
